---- MODULE Spec2Model ----
(***************************************************************************)
(* Model of gl::Program (src/libANGLE/Program.cpp): the link state machine *)
(* (link / resolveLink / loadBinary / unlink), the program cache it talks  *)
(* to, the binary serialisation of the linked tables and the operations    *)
(* that read or write those tables between links; and of the passes of     *)
(* TranslatorVulkan::translateImpl                                         *)
(* (src/compiler/translator/TranslatorVulkan.cpp) that correct the         *)
(* coordinates of the built-ins and emulate line rasterization.            *)
(***************************************************************************)
EXTENDS Integers, Sequences, FiniteSets, Bags, TLC

VARIABLES
    mAttachedShaders,               \* ProgramState::mAttachedShaders (the shader of each stage, NoShader = nullptr)
    mAttributeBindings,             \* Program::mAttributeBindings (name -> location)
    mFragmentOutputLocations,       \* Program::mFragmentOutputLocations (name -> binding)
    mFragmentOutputIndexes,         \* Program::mFragmentOutputIndexes (name -> binding)
    mTransformFeedbackVaryingNames, \* ProgramState::mTransformFeedbackVaryingNames
    mSeparable,                     \* ProgramState::mSeparable
    mExecutable,                    \* *ProgramState::mExecutable (the ProgramExecutable)
    mState,                         \* the resource tables ProgramState holds itself
    mLinked,                        \* Program::mLinked
    mLinkingState,                  \* Program::mLinkingState (present = non-null)
    cache,                          \* MemoryProgramCache: set of [key, value] entries
    context,                        \* the gl::Context the calls are made with
    savedBinary,                    \* the blob the application got from saveBinary
    ret,                            \* the last call: its name, result and trace
    refCount,                       \* the references the program holds on each gl::Shader (a bag of shader ids)
    compiler                        \* the TranslatorVulkan of the shader being translated (present = one exists)

vars == <<mAttachedShaders, mAttributeBindings, mFragmentOutputLocations,
          mFragmentOutputIndexes, mTransformFeedbackVaryingNames, mSeparable,
          mExecutable, mState, mLinked, mLinkingState, cache, context, savedBinary, ret,
          refCount, compiler>>

-----------------------------------------------------------------------------
(* Bounds of the model.                                                    *)

\* Texture units a sampler uniform may be set to: 0..MaxTextureUnit.
MaxTextureUnit == 1
\* Uniform-buffer binding points glUniformBlockBinding may choose: 0..MaxBlockBinding.
MaxBlockBinding == 1
\* Entries the memory program cache holds before it evicts.
MaxCacheEntries == 1

\* Caps::maxVertexAttributes, Caps::maxDrawBuffers of the modelled context.
Caps ==
    [maxVertexAttributes |-> 3, maxDrawBuffers |-> 3, maxDualSourceDrawBuffers |-> 1,
     maxUniformLocations |-> 8, maxShaderUniformBlocks |-> 2,
     maxCombinedUniformBlocks |-> 4,
     maxShaderStorageBlocks |-> 1, maxCombinedShaderStorageBlocks |-> 2,
     maxCombinedShaderOutputResources |-> 4]

kUnused == -1   \* GL_INVALID_INDEX, the index of an unused VariableLocation

-----------------------------------------------------------------------------
(* Sequence helpers.                                                       *)

Range(lo, hi) == [low |-> lo, high |-> hi]

RECURSIVE SeqSum(_)
SeqSum(s) == IF s = <<>> THEN 0 ELSE Head(s) + SeqSum(Tail(s))

RECURSIVE Concat(_)
Concat(ss) == IF ss = <<>> THEN <<>> ELSE Head(ss) \o Concat(Tail(ss))

SelectKind(us, k) == SelectSeq(us, LAMBDA u : u.kind = k)

Max(a, b) == IF a >= b THEN a ELSE b

\* version >= Version(major, minor)
VersionAtLeast(version, major, minor) ==
    version[1] > major \/ (version[1] = major /\ version[2] >= minor)

-----------------------------------------------------------------------------
(* The compiled shader objects that can be attached (gl::Shader, external *)
(* input of the linker).  A shader exposes its stage, version, compile     *)
(* status and its flattened variable lists.                                *)

ShaderTypes == {"Vertex", "Fragment", "Compute"}
\* gl::AllShaderTypes() order.
AllShaderTypes == <<"Vertex", "Fragment", "Compute">>
kAllGraphicsShaderTypes == <<"Vertex", "Fragment">>

\* A uniform as a shader declares it (sh::ShaderVariable): kind is the class of
\* its type, count is getBasicTypeElementCount(), parentArrayIndex is -1 or
\* the index of a flattened sub-array in the array of arrays it comes from.
Uniform(name, kind, binding, count) ==
    [name |-> name, kind |-> kind, binding |-> binding, count |-> count,
     isArray |-> count > 1, parentArrayIndex |-> -1]

\* An interface block as a shader declares it (sh::InterfaceBlock): not an
\* array, active; instanceName is "" for a block without an instance name.
InterfaceBlock(name, instanceName, layout, binding, fields) ==
    [name |-> name, instanceName |-> instanceName, arraySize |-> 0, layout |-> layout,
     binding |-> binding, active |-> TRUE, fields |-> fields]

NoShader ==
    [id |-> "none", type |-> "none", compiled |-> FALSE, version |-> 0,
     workGroupDeclared |-> FALSE,
     attributes |-> <<>>, outVaryings |-> <<>>, inVaryings |-> <<>>,
     uniforms |-> <<>>, uniformBlocks |-> <<>>, shaderStorageBlocks |-> <<>>,
     outputs |-> <<>>]

VS1 ==
    [NoShader EXCEPT
       !.id = "VS1", !.type = "Vertex", !.compiled = TRUE, !.version = 300,
       !.attributes =
           << [name |-> "a", location |-> 0, components |-> 4, active |-> TRUE,
               builtin |-> FALSE],
              [name |-> "b", location |-> -1, components |-> 4, active |-> TRUE,
               builtin |-> FALSE],
              [name |-> "gl_VertexID", location |-> -1, components |-> 1, active |-> TRUE,
               builtin |-> TRUE] >>,
       !.outVaryings = << [name |-> "vColor", type |-> "vec4"] >>,
       !.uniforms = << Uniform("u", "default", -1, 1) >>,
       !.uniformBlocks =
           << InterfaceBlock("B", "", "shared", 1,
                             << [name |-> "f", type |-> "vec4", precision |-> "highp",
                                 isRowMajorLayout |-> FALSE] >>) >>]

FS1 ==
    [NoShader EXCEPT
       !.id = "FS1", !.type = "Fragment", !.compiled = TRUE, !.version = 300,
       !.inVaryings = << [name |-> "vColor", type |-> "vec4"] >>,
       !.uniforms =
           << Uniform("s", "sampler", 1, 1),
              Uniform("ac", "atomic", 2, 1) >>,
       !.outputs =
           << [name |-> "color", location |-> -1, index |-> -1, count |-> 1,
               isArray |-> FALSE, builtin |-> FALSE] >>]

\* A fragment shader whose compilation failed.
FS0 == [NoShader EXCEPT !.id = "FS0", !.type = "Fragment", !.version = 300]

CS1 ==
    [NoShader EXCEPT
       !.id = "CS1", !.type = "Compute", !.compiled = TRUE, !.version = 310,
       !.workGroupDeclared = TRUE,
       !.uniforms =
           << Uniform("t", "sampler", -1, 1),
              Uniform("img", "image", 1, 1) >>]

Shaders == {VS1, FS1, FS0, CS1}
\* The shaders that compiled.
CompiledShaders == {s \in Shaders : s.compiled}

\* Fragment shaders for the linking of fragment outputs: up to four outputs
\* o, ob, oc and od, alone or arrays of two, with or without a location or an
\* index (layout(location = l, index = i); the compiler accepts an index only
\* together with a location).
OutputShaders ==
    LET OutputVariable(name, location, index, count) ==
            [name |-> name, location |-> location, index |-> index, count |-> count,
             isArray |-> count > 1, builtin |-> FALSE]
        o == {OutputVariable("o", l, i, c) :
                 l \in -1..Caps.maxDrawBuffers, i \in {-1, 1}, c \in 1..2} \
             {OutputVariable("o", -1, 1, c) : c \in 1..2}
        ob == {OutputVariable("ob", l, -1, c) : l \in -1..(Caps.maxDrawBuffers - 1), c \in 1..2}
        oc == {OutputVariable("oc", l, -1, 1) : l \in {-1, Caps.maxDrawBuffers - 1}}
        od == {OutputVariable("od", Caps.maxDrawBuffers, -1, 1)}
        OutputLists ==
            {<<x>> : x \in o} \cup {<<x, y>> : x \in o, y \in ob}
            \cup {<<x, y, z>> : x \in o, y \in ob, z \in oc}
            \cup {<<x, y, z, w>> : x \in o, y \in ob, z \in oc, w \in od}
    IN  {[FS1 EXCEPT !.id = "FSo", !.uniforms = <<>>, !.outputs = outputs] :
            outputs \in OutputLists}

\* A fragment shader written in GLSL ES 1.00: no declared outputs.
FS100 ==
    [FS1 EXCEPT !.id = "FS100", !.version = 100, !.uniforms = <<>>, !.outputs = <<>>]

\* Vertex shaders for the linking of attributes: attributes a and b of one or
\* two registers, a active or not, and in GLSL ES 3.00 with or without a
\* layout(location) and with or without the built-in gl_VertexID.
AttributeShaders ==
    LET Attribute(name, location, components, active) ==
            [name |-> name, location |-> location, components |-> components,
             active |-> active, builtin |-> FALSE]
        gl_VertexID == [Attribute("gl_VertexID", -1, 1, TRUE) EXCEPT !.builtin = TRUE]
        a(locations) == {Attribute("a", l, c, active) :
                            l \in locations, c \in {3, 8}, active \in BOOLEAN}
        b(locations) == {Attribute("b", l, c, TRUE) : l \in locations, c \in {4, 6}}
        AttributeLists300 ==
            UNION {{<<x, y>>, <<x, y, gl_VertexID>>, <<gl_VertexID, x, y>>} :
                      x \in a(-1..(Caps.maxVertexAttributes - 1)), y \in b({-1, 1})}
        AttributeLists100 == {<<x, y>> : x \in a({-1}), y \in b({-1})}
        VertexShader(version, attributes) ==
            [VS1 EXCEPT !.id = "VSa",
                        !.version = version, !.attributes = attributes,
                        !.uniformBlocks = IF version = 100 THEN <<>> ELSE @]
    IN  {VertexShader(300, attributes) : attributes \in AttributeLists300}
        \cup {VertexShader(100, attributes) : attributes \in AttributeLists100}

\* Compute shaders for the linking of uniforms: samplers s, images im, in and
\* img and atomic counters ac, ad and ae, with or without a binding; s, im and
\* in can be arrays of two arrays, which the compiler hands over flattened to
\* the sub-arrays name[0] and name[1], each with the binding of the declaration.
UniformShaders ==
    LET SubArray(name, kind, binding, count, index) ==
            [Uniform(name \o "[" \o ToString(index) \o "]", kind, binding, count) EXCEPT
               !.isArray = TRUE, !.parentArrayIndex = index]
        ArrayOfArrays(name, kind, binding, count) ==
            <<SubArray(name, kind, binding, count, 0), SubArray(name, kind, binding, count, 1)>>
        samplers ==
            {<<>>} \cup {<<Uniform("s", "sampler", binding, 1)>> : binding \in -1..1}
            \cup {ArrayOfArrays("s", "sampler", binding, 1) : binding \in -1..0}
        images ==
            {<<>>}
            \cup {<<Uniform("img", "image", binding, count)>> : binding \in -1..1, count \in 1..2}
            \cup {ArrayOfArrays("im", "image", binding, count) :
                     binding \in -1..1, count \in 1..2}
            \cup {ArrayOfArrays("im", "image", 0, count) \o <<Uniform("img", "image", binding, 1)>> :
                     binding \in {-1, 1}, count \in 1..2}
            \cup {ArrayOfArrays("im", "image", 0, 1) \o ArrayOfArrays("in", "image", 2, 1)}
        counters(name) == {Uniform(name, "atomic", binding, 1) : binding \in {2, 5}}
        atomics ==
            {<<>>} \cup {<<x>> : x \in counters("ac")}
            \cup {<<x, y>> : x \in counters("ac"), y \in counters("ad")}
            \cup {<<x, y, z>> : x \in counters("ac"), y \in counters("ad"),
                                 z \in counters("ae")}
    IN  {[CS1 EXCEPT !.id = "CSu", !.uniforms = uniforms] :
            uniforms \in {x \o y \o z : x \in samplers, y \in images, z \in atomics}}

\* The attached shader of a stage (nullptr is NoShader).
Attached(att, type) == att[type]
IsAttached(att, type) == att[type].id # "none"

-----------------------------------------------------------------------------
(* The Program object: ProgramExecutable, ProgramState tables, mLinked,    *)
(* mLinkingState.  The pipeline below is written over one record           *)
(*   [exe, st, mLinked, ls]                                                *)
(* so that a whole handler is one function of the state before it.         *)

\* A default-constructed VariableLocation.
VariableLocation0 == [arrayIndex |-> 0, index |-> kUnused, ignored |-> FALSE]
VariableLocation(arrayIndex, index) ==
    [arrayIndex |-> arrayIndex, index |-> index, ignored |-> FALSE]
used(loc) == loc.index # kUnused

\* A ProgramExecutable as constructed.
NewExecutable ==
    [infoLog |-> <<>>,
     mLinkedShaderStages |-> {}, mIsCompute |-> FALSE,
     mProgramInputs |-> <<>>, mActiveAttribLocationsMask |-> {},
     mUniforms |-> <<>>, mUniformBlocks |-> <<>>, mAtomicCounterBuffers |-> <<>>,
     mOutputVariables |-> <<>>, mOutputLocations |-> <<>>,
     mSamplerBindings |-> <<>>,
     mActiveSamplerRefCounts |-> [unit \in 0..MaxTextureUnit |-> 0],
     mActiveSamplersMask |-> {},
     mComputeImageBindings |-> <<>>, mGraphicsImageBindings |-> <<>>,
     mLinkedTransformFeedbackVaryings |-> <<>>,
     mDefaultUniformRange |-> Range(0, 0),
     mSamplerUniformRange |-> Range(0, 0),
     mImageUniformRange |-> Range(0, 0)]

\* ProgramExecutable::reset(): clears the info log and every resource list
\* (deserialize asserts the lists empty after unlink); the uniform ranges
\* and the linked-stage set are not lists and stay as they are.
ExecutableReset(exe) ==
    [exe EXCEPT
       !.infoLog = <<>>,
       !.mProgramInputs = <<>>, !.mActiveAttribLocationsMask = {},
       !.mUniforms = <<>>, !.mUniformBlocks = <<>>, !.mAtomicCounterBuffers = <<>>,
       !.mOutputVariables = <<>>, !.mOutputLocations = <<>>,
       !.mSamplerBindings = <<>>,
       !.mActiveSamplerRefCounts = [unit \in 0..MaxTextureUnit |-> 0],
       !.mActiveSamplersMask = {},
       !.mComputeImageBindings = <<>>, !.mGraphicsImageBindings = <<>>,
       !.mLinkedTransformFeedbackVaryings = <<>>]

\* The tables ProgramState keeps outside the executable, as constructed.
NewState ==
    [mUniformLocations |-> <<>>,
     mActiveUniformBlockBindings |-> {},
     mSecondaryOutputLocations |-> <<>>,
     mActiveOutputVariables |-> {},
     mAtomicCounterUniformRange |-> Range(0, 0)]

\* struct Program::LinkingState; present = FALSE stands for a null mLinkingState.
\* linkedExecutable is a shared pointer that is either null or points at the
\* object mState.mExecutable points at (the only value ever stored in it).
NoHash == [shaders |-> <<>>, attribs |-> <<>>, xfb |-> <<>>, version |-> 0]
NoLinkingState ==
    [present |-> FALSE, linkedExecutable |-> FALSE, programHash |-> NoHash,
     linkEvent |-> "none", linkingFromBinary |-> FALSE]

Log(p, msg) == [p EXCEPT !.exe.infoLog = Append(@, msg)]

\* Program::unlink
unlink(p) ==
    [p EXCEPT
       \* a copy of *linkedExecutable, which is *mExecutable itself, then reset
       !.exe = ExecutableReset(@),
       !.st = [@ EXCEPT !.mUniformLocations = <<>>,
                        !.mActiveUniformBlockBindings = {},
                        !.mSecondaryOutputLocations = <<>>,
                        !.mActiveOutputVariables = {}],
       !.mLinked = FALSE]

\* Program::linkValidateShaders: [ok, p]
linkValidateShaders(p, att, separable) ==
    LET vs == Attached(att, "Vertex")
        fs == Attached(att, "Fragment")
        cs == Attached(att, "Compute")
        hasV == IsAttached(att, "Vertex")
        hasF == IsAttached(att, "Fragment")
        hasC == IsAttached(att, "Compute")
        Fail(msg) == [ok |-> FALSE, p |-> Log(p, msg)]
    IN  IF hasC /\ (hasV \/ hasF)
        THEN Fail("Both compute and graphics shaders are attached to the same program.")
        ELSE IF hasC
        THEN IF ~cs.compiled THEN Fail("Attached compute shader is not compiled.")
             ELSE IF ~cs.workGroupDeclared THEN Fail("Work group size is not specified.")
             ELSE [ok |-> TRUE, p |-> p]
        ELSE IF separable /\ ~hasF /\ ~hasV THEN Fail("No compiled shaders.")
        ELSE IF separable /\ hasF /\ ~fs.compiled THEN Fail("Fragment shader is not compiled.")
        ELSE IF separable /\ hasV /\ ~vs.compiled THEN Fail("Vertex shader is not compiled.")
        ELSE IF ~separable /\ (~hasF \/ ~fs.compiled)
        THEN Fail("No compiled fragment shader when at least one graphics shader is attached.")
        ELSE IF ~separable /\ (~hasV \/ ~vs.compiled)
        THEN Fail("No compiled vertex shader when at least one graphics shader is attached.")
        ELSE IF hasV /\ hasF /\ fs.version # vs.version
        THEN Fail("Fragment shader version does not match vertex shader version.")
        ELSE [ok |-> TRUE, p |-> p]

-----------------------------------------------------------------------------
(* Attribute linking.                                                      *)

EmptyBindings == [n \in {} |-> 0]
\* ProgramBindings::bindLocation
bindLocation(b, index, name) ==
    [n \in DOMAIN b \cup {name} |-> IF n = name THEN index ELSE b[n]]
\* A table of bindings that answers as if nothing had been bound.
getBindingByNameUnbound(b, name) == -1
\* ProgramBindings::getBindingByName
getBindingByName(b, name) == IF name \in DOMAIN b THEN b[name] ELSE -1

\* AllocateFirstFreeBits(&bits, allocationSize, bitsSize): the first index i
\* such that bits i..i+allocationSize-1 are all free, or -1.
AllocateFirstFreeBits(bits, allocationSize, bitsSize) ==
    LET fits == {i \in 0..(bitsSize - allocationSize) :
                    \A r \in 0..(allocationSize - 1) : (i + r) \notin bits}
    IN  IF fits = {} THEN -1 ELSE CHOOSE i \in fits : \A j \in fits : i <= j

\* VariableRegisterCount(attribute.type): the registers a type of so many
\* components takes, four components to a register.
VariableRegisterCount(attribute) == (attribute.components + 3) \div 4

\* First loop of linkAttributes, from attribute i on.  acc = [attrs, usedAttribMap,
\* usedLocations, err]: usedAttribMap[reg] is the name of the attribute the entry
\* points at, "" for nullptr.
RECURSIVE AssignBoundAttributes(_, _, _, _)
AssignBoundAttributes(acc, i, bindings, strict) ==
    IF i > Len(acc.attrs) \/ acc.err # "" THEN acc
    ELSE
      LET attribute0 == acc.attrs[i]
          bindingLocation == getBindingByName(bindings, attribute0.name)
          attribute == IF attribute0.location = -1 /\ bindingLocation # -1
                       THEN [attribute0 EXCEPT !.location = bindingLocation]
                       ELSE attribute0
          regs == VariableRegisterCount(attribute)
          maxAttribs == Caps.maxVertexAttributes
          regLocations == {attribute.location + r : r \in 0..(regs - 1)}
          linked == {regLocation \in regLocations : acc.usedAttribMap[regLocation] # ""}
          regLocation == CHOOSE l \in linked : \A m \in linked : l <= m
          withAttr == [acc EXCEPT !.attrs[i] = attribute]
      IN  IF attribute.location = -1
          THEN AssignBoundAttributes(withAttr, i + 1, bindings, strict)
          ELSE IF regs + attribute.location > maxAttribs
          THEN [withAttr EXCEPT !.err = "Attribute (" \o attribute.name \o ") at location "
                                        \o ToString(attribute.location)
                                        \o " is too big to fit"]
          ELSE IF strict /\ linked # {}
          THEN [withAttr EXCEPT !.err = "Attribute '" \o attribute.name
                                        \o "' aliases attribute '"
                                        \o acc.usedAttribMap[regLocation]
                                        \o "' at location " \o ToString(regLocation)]
          ELSE AssignBoundAttributes(
                 [withAttr EXCEPT !.usedAttribMap =
                                      [reg \in DOMAIN @ |->
                                          IF reg \in regLocations /\ @[reg] = ""
                                          THEN attribute.name ELSE @[reg]],
                                  !.usedLocations = @ \cup regLocations],
                 i + 1, bindings, strict)

\* A second loop that puts every attribute left at -1 on register 0.
AssignFreeAttributesAtZero(acc, i) ==
    [acc EXCEPT !.attrs = [k \in DOMAIN @ |-> IF @[k].location = -1
                                               THEN [@[k] EXCEPT !.location = 0]
                                               ELSE @[k]]]
\* Second loop of linkAttributes: first-fit for the attributes left at -1.
RECURSIVE AssignFreeAttributes(_, _)
AssignFreeAttributes(acc, i) ==
    IF i > Len(acc.attrs) \/ acc.err # "" THEN acc
    ELSE
      LET attribute == acc.attrs[i]
          regs == VariableRegisterCount(attribute)
          availableIndex ==
              AllocateFirstFreeBits(acc.usedLocations, regs, Caps.maxVertexAttributes)
      IN  IF attribute.location # -1 THEN AssignFreeAttributes(acc, i + 1)
          ELSE IF availableIndex = -1 \/ availableIndex + regs > Caps.maxVertexAttributes
          THEN [acc EXCEPT !.err = "Too many attributes (" \o attribute.name \o ")"]
          ELSE AssignFreeAttributes(
                 [acc EXCEPT !.attrs[i].location = availableIndex,
                             !.usedLocations =
                                 @ \cup {availableIndex + r : r \in 0..(regs - 1)}],
                 i + 1)

\* Program::linkAttributes: [ok, p]
linkAttributes(p, att, bindings, ctx) ==
    LET vs == Attached(att, "Vertex")
        shaderVersion == vs.version
        declared == IF shaderVersion >= 300 THEN vs.attributes
                    ELSE SelectSeq(vs.attributes, LAMBDA a : a.active)
        strict == shaderVersion >= 300 \/ ctx.webglCompatibility
                  \/ ctx.noVertexAttributeAliasing
        a1 == AssignBoundAttributes(
                [attrs |-> declared,
                 usedAttribMap |-> [reg \in 0..(Caps.maxVertexAttributes - 1) |-> ""],
                 usedLocations |-> {}, err |-> ""],
                1, bindings, strict)
        a2 == AssignFreeAttributes(a1, 1)
        pruned == IF shaderVersion >= 300
                  THEN SelectSeq(a2.attrs, LAMBDA a : a.active)
                  ELSE a2.attrs
        mask == UNION {{pruned[i].location + r :
                           r \in 0..(VariableRegisterCount(pruned[i]) - 1)} :
                        i \in {j \in 1..Len(pruned) : ~pruned[j].builtin}}
        \* mProgramInputs is written in place, so a failure leaves what was assigned so far
        partial(attrs) == [p EXCEPT !.exe.mProgramInputs = attrs]
    IN  IF ~IsAttached(att, "Vertex") THEN [ok |-> TRUE, p |-> p]
        ELSE IF a1.err # "" THEN [ok |-> FALSE, p |-> Log(partial(a1.attrs), a1.err)]
        ELSE IF a2.err # "" THEN [ok |-> FALSE, p |-> Log(partial(a2.attrs), a2.err)]
        ELSE [ok |-> TRUE,
              p |-> [p EXCEPT !.exe.mProgramInputs = pruned,
                              !.exe.mActiveAttribLocationsMask = mask]]

-----------------------------------------------------------------------------
(* Varying and uniform linking.                                            *)

\* LinkValidateShaderInterfaceMatching: every input of the later stage has an
\* output of the earlier stage with the same name and type.
LinkValidateShaderInterfaceMatching(outputVaryings, inputVaryings) ==
    \A i \in 1..Len(inputVaryings) :
        \E o \in 1..Len(outputVaryings) : outputVaryings[o] = inputVaryings[i]

\* Program::linkVaryings: [ok, p]
linkVaryings(p, att) ==
    LET vs == Attached(att, "Vertex")
        fs == Attached(att, "Fragment")
    IN  IF IsAttached(att, "Vertex") /\ IsAttached(att, "Fragment")
           /\ ~LinkValidateShaderInterfaceMatching(vs.outVaryings, fs.inVaryings)
        THEN [ok |-> FALSE, p |-> Log(p, "Varying does not match any output of the previous stage")]
        ELSE [ok |-> TRUE, p |-> p]

\* A gl::LinkedUniform made of a shader's uniform.
LinkedUniform(u) ==
    [name |-> u.name, kind |-> u.kind, binding |-> u.binding, count |-> u.count,
     isArray |-> u.isArray, parentArrayIndex |-> u.parentArrayIndex,
     activeShaderCount |-> 1, bufferIndex |-> -1]

\* UniformLinker::link + getResults: the uniforms of all attached stages,
\* default-block uniforms first, then samplers, images and atomic counters,
\* and one location per element of every uniform that is not an atomic counter.
UniformLinkerUniforms(att) ==
    LET declared == Concat([t \in 1..Len(AllShaderTypes) |->
                              Attached(att, AllShaderTypes[t]).uniforms])
        linked == [i \in 1..Len(declared) |-> LinkedUniform(declared[i])]
    IN  SelectKind(linked, "default") \o SelectKind(linked, "sampler")
        \o SelectKind(linked, "image") \o SelectKind(linked, "atomic")

UniformLinkerLocations(us) ==
    Concat([i \in 1..Len(us) |->
              IF us[i].kind = "atomic" THEN <<>>
              ELSE [e \in 1..us[i].count |-> VariableLocation(e - 1, i - 1)]])

\* The low end of the run of uniforms of one kind that ends below index high
\* (indices are 0-based, us[j + 1] is uniform j).
RECURSIVE TrailingLow(_, _, _)
TrailingLow(us, high, kind) ==
    IF high > 0 /\ us[high].kind = kind THEN TrailingLow(us, high - 1, kind) ELSE high

\* SamplerBinding(textureType, samplerType, format, elementCount)
SamplerBinding(elementCount) ==
    [textureType |-> "2D", boundTextureUnits |-> [e \in 1..elementCount |-> 0]]
\* ImageBinding(count, textureType) and ImageBinding(imageUnit, count, textureType)
ImageBinding0(count) == [boundImageUnits |-> [e \in 1..count |-> 0]]
ImageBinding(imageUnit, count) ==
    [boundImageUnits |-> [e \in 1..count |-> imageUnit + e - 1]]

\* The image loop of linkSamplerAndImageBindings over uniforms imageIndex..high-1:
\* acc = [bindings, combinedImageUniforms, arrayOffset].
RECURSIVE LinkImageBindings(_, _, _, _)
LinkImageBindings(acc, us, imageIndex, high) ==
    IF imageIndex >= high THEN acc
    ELSE
      LET imageUniform == us[imageIndex + 1]
          binding == IF imageUniform.binding = -1
                     THEN ImageBinding0(imageUniform.count)
                     ELSE ImageBinding(imageUniform.binding + acc.arrayOffset,
                                       imageUniform.count)
          arraySize == IF imageUniform.isArray THEN imageUniform.count ELSE 1
      IN  LinkImageBindings(
            [bindings |-> Append(acc.bindings, binding),
             combinedImageUniforms |->
                 acc.combinedImageUniforms + imageUniform.activeShaderCount * arraySize,
             arrayOffset |-> IF imageUniform.parentArrayIndex # -1 /\ imageUniform.isArray
                             THEN acc.arrayOffset + arraySize ELSE 0],
            us, imageIndex + 1, high)

\* Program::linkSamplerAndImageBindings: [p, combinedImageUniforms]
linkSamplerAndImageBindings(p, att) ==
    LET us == p.exe.mUniforms
        high == Len(us)
        atomicLow == TrailingLow(us, high, "atomic")
        imageLow == TrailingLow(us, atomicLow, "image")
        samplerLow == TrailingLow(us, imageLow, "sampler")
        hasComputeShader == IsAttached(att, "Compute")
        old == IF hasComputeShader THEN p.exe.mComputeImageBindings
               ELSE p.exe.mGraphicsImageBindings
        img == LinkImageBindings(
                 [bindings |-> old, combinedImageUniforms |-> 0, arrayOffset |-> 0],
                 us, imageLow, atomicLow)
        samplers == [k \in 1..(imageLow - samplerLow) |->
                        SamplerBinding(us[samplerLow + k].count)]
    IN  [p |-> [p EXCEPT
                  !.st.mAtomicCounterUniformRange = Range(atomicLow, high),
                  !.exe.mImageUniformRange = Range(imageLow, atomicLow),
                  !.exe.mComputeImageBindings =
                      IF hasComputeShader THEN img.bindings ELSE @,
                  !.exe.mGraphicsImageBindings =
                      IF hasComputeShader THEN @ ELSE img.bindings,
                  !.exe.mSamplerUniformRange = Range(samplerLow, imageLow),
                  !.exe.mSamplerBindings = @ \o samplers,
                  !.exe.mDefaultUniformRange = Range(0, samplerLow)],
         combinedImageUniforms |-> img.combinedImageUniforms]

\* A search that finds no atomic counter buffer.
FindNoAtomicCounterBuffer(buffers, binding) == -1
\* The index of the first atomic counter buffer with this binding, or -1.
FindAtomicCounterBuffer(buffers, binding) ==
    LET hits == {b \in 1..Len(buffers) : buffers[b].binding = binding}
    IN  IF hits = {} THEN -1 ELSE (CHOOSE b \in hits : \A c \in hits : b <= c) - 1

\* Program::linkAtomicCounterBuffers, from uniform index on.
RECURSIVE linkAtomicCounterBuffers(_, _)
linkAtomicCounterBuffers(p, index) ==
    IF index >= p.st.mAtomicCounterUniformRange.high THEN p
    ELSE
      LET uniform == p.exe.mUniforms[index + 1]
          buffers == p.exe.mAtomicCounterBuffers
          bufferIndex == FindAtomicCounterBuffer(buffers, uniform.binding)
      IN  IF bufferIndex # -1
          THEN linkAtomicCounterBuffers(
                 [p EXCEPT !.exe.mAtomicCounterBuffers[bufferIndex + 1].memberIndexes =
                               Append(@, index),
                           !.exe.mUniforms[index + 1].bufferIndex = bufferIndex],
                 index + 1)
          ELSE linkAtomicCounterBuffers(
                 [p EXCEPT !.exe.mAtomicCounterBuffers =
                               Append(@, [binding |-> uniform.binding,
                                          memberIndexes |-> <<index>>]),
                           !.exe.mUniforms[index + 1].bufferIndex = Len(buffers)],
                 index + 1)

\* Program::linkUniforms: [ok, p, combinedImageUniforms]
linkUniforms(p, att, ctx) ==
    LET us == UniformLinkerUniforms(att)
        p1 == [p EXCEPT !.exe.mUniforms = us,
                        !.st.mUniformLocations = UniformLinkerLocations(us)]
        r2 == linkSamplerAndImageBindings(p1, att)
        p3 == linkAtomicCounterBuffers(r2.p, r2.p.st.mAtomicCounterUniformRange.low)
    IN  IF VersionAtLeast(ctx.clientVersion, 3, 1)
           /\ Len(p3.st.mUniformLocations) > Caps.maxUniformLocations
        THEN [ok |-> FALSE, p |-> Log(p3, "Exceeded maximum uniform location size"),
              combinedImageUniforms |-> r2.combinedImageUniforms]
        ELSE [ok |-> TRUE, p |-> p3, combinedImageUniforms |-> r2.combinedImageUniforms]

-----------------------------------------------------------------------------
(* Interface blocks, fragment outputs, merged varyings.                    *)

\* IsActiveInterfaceBlock: only 'packed' blocks are allowed to be considered inactive.
IsActiveInterfaceBlock(interfaceBlock) ==
    interfaceBlock.active \/ interfaceBlock.layout # "packed"

\* ValidateInterfaceBlocksCount: [ok, blockCount].  The count only grows, so
\* it exceeds the limit at some block exactly when the total does.
ValidateInterfaceBlocksCount(maxInterfaceBlocks, interfaceBlocks) ==
    LET blockCount ==
            SeqSum([i \in 1..Len(interfaceBlocks) |->
                      IF IsActiveInterfaceBlock(interfaceBlocks[i])
                      THEN Max(interfaceBlocks[i].arraySize, 1) ELSE 0])
    IN  [ok |-> blockCount <= maxInterfaceBlocks, blockCount |-> blockCount]

\* LinkValidateProgramVariables on two block fields: their types, and their
\* precisions when validatePrecision.
LinkValidateProgramVariables(variable1, variable2, validatePrecision) ==
    IF variable1.type # variable2.type THEN "TYPE_MISMATCH"
    ELSE IF validatePrecision /\ variable1.precision # variable2.precision
    THEN "PRECISION_MISMATCH"
    ELSE "NO_MISMATCH"

\* LinkValidateInterfaceBlockFields: the LinkMismatchError
LinkValidateInterfaceBlockFields(blockField1, blockField2, webglCompatibility) ==
    IF blockField1.name # blockField2.name THEN "FIELD_NAME_MISMATCH"
    ELSE IF LinkValidateProgramVariables(blockField1, blockField2, webglCompatibility)
            # "NO_MISMATCH"
    THEN LinkValidateProgramVariables(blockField1, blockField2, webglCompatibility)
    ELSE IF blockField1.isRowMajorLayout # blockField2.isRowMajorLayout
    THEN "MATRIX_PACKING_MISMATCH"
    ELSE "NO_MISMATCH"

\* A comparison of two blocks that leaves their layout and binding out.
AreMatchingInterfaceBlocksByFields(interfaceBlock1, interfaceBlock2, webglCompatibility) ==
    IF interfaceBlock1.fields = interfaceBlock2.fields THEN "NO_MISMATCH"
    ELSE "FIELD_NUMBER_MISMATCH"
\* AreMatchingInterfaceBlocks: the LinkMismatchError
AreMatchingInterfaceBlocks(interfaceBlock1, interfaceBlock2, webglCompatibility) ==
    LET numBlockMembers == Len(interfaceBlock1.fields)
        mismatched == {m \in 1..numBlockMembers :
                          LinkValidateInterfaceBlockFields(
                              interfaceBlock1.fields[m], interfaceBlock2.fields[m],
                              webglCompatibility) # "NO_MISMATCH"}
        blockMemberIndex == CHOOSE m \in mismatched : \A n \in mismatched : m <= n
    IN  IF Len(interfaceBlock1.fields) # Len(interfaceBlock2.fields)
        THEN "FIELD_NUMBER_MISMATCH"
        ELSE IF interfaceBlock1.arraySize # interfaceBlock2.arraySize
        THEN "ARRAY_SIZE_MISMATCH"
        ELSE IF interfaceBlock1.layout # interfaceBlock2.layout
                \/ interfaceBlock1.binding # interfaceBlock2.binding
        THEN "LAYOUT_QUALIFIER_MISMATCH"
        ELSE IF (interfaceBlock1.instanceName = "") # (interfaceBlock2.instanceName = "")
        THEN "INSTANCE_NAME_MISMATCH"
        ELSE IF mismatched # {}
        THEN LinkValidateInterfaceBlockFields(
                 interfaceBlock1.fields[blockMemberIndex],
                 interfaceBlock2.fields[blockMemberIndex], webglCompatibility)
        ELSE "NO_MISMATCH"

\* ValidateGraphicsInterfaceBlocksPerShader against linkedBlocks, the blocks
\* of the stage that initialized the map (InitializeInterfaceBlockMap): "" or
\* the message of the first mismatch.
ValidateGraphicsInterfaceBlocksPerShader(interfaceBlocksToLink, webglCompatibility, linkedBlocks) ==
    LET Mismatch(block) ==
            {l \in 1..Len(linkedBlocks) :
                /\ linkedBlocks[l].name = block.name
                /\ AreMatchingInterfaceBlocks(block, linkedBlocks[l], webglCompatibility)
                     # "NO_MISMATCH"}
        failing == {i \in 1..Len(interfaceBlocksToLink) :
                       Mismatch(interfaceBlocksToLink[i]) # {}}
        block == interfaceBlocksToLink[CHOOSE i \in failing : \A j \in failing : i <= j]
    IN  IF failing = {} THEN ""
        ELSE AreMatchingInterfaceBlocks(block, linkedBlocks[CHOOSE l \in Mismatch(block) : TRUE],
                                        webglCompatibility)
             \o "s of block '" \o block.name \o "' differ between shaders."

\* ValidateInstancelessGraphicsInterfaceBlocksPerShader over entries, the
\* <<block, field>> pairs its two loops go through: acc = [fields, err],
\* fields being the map instancelessBlocksFields from field names to block
\* names.
RECURSIVE ValidateInstancelessGraphicsInterfaceBlocksPerShader(_, _)
ValidateInstancelessGraphicsInterfaceBlocksPerShader(acc, entries) ==
    IF entries = <<>> \/ acc.err # "" THEN acc
    ELSE LET entry == Head(entries)
         IN  IF entry.field \in DOMAIN acc.fields
             THEN IF entry.block # acc.fields[entry.field]
                  THEN [acc EXCEPT !.err = "Ambiguous field '" \o entry.field
                                           \o "' in blocks '" \o entry.block \o "' and '"
                                           \o acc.fields[entry.field]
                                           \o "' which don't have instance names."]
                  ELSE ValidateInstancelessGraphicsInterfaceBlocksPerShader(acc, Tail(entries))
             ELSE ValidateInstancelessGraphicsInterfaceBlocksPerShader(
                    [acc EXCEPT !.fields = [n \in DOMAIN @ \cup {entry.field} |->
                                              IF n = entry.field THEN entry.block ELSE @[n]]],
                    Tail(entries))

\* A validation that leaves the fields of blocks without instance names out.
ValidateInterfaceBlocksMatchByName(numShadersHasInterfaceBlocks, shaderInterfaceBlocks, webglCompatibility, instancelessFields) ==
    [fields |-> instancelessFields,
     err |-> IF numShadersHasInterfaceBlocks < 2 THEN ""
             ELSE ValidateGraphicsInterfaceBlocksPerShader(
                      shaderInterfaceBlocks["Fragment"], webglCompatibility,
                      shaderInterfaceBlocks["Vertex"])]
\* ValidateInterfaceBlocksMatch: [fields, err].  shaderInterfaceBlocks[type]
\* is <<>> for a null entry.
ValidateInterfaceBlocksMatch(numShadersHasInterfaceBlocks, shaderInterfaceBlocks, webglCompatibility, instancelessFields) ==
    LET InstancelessFields(interfaceBlocks) ==
            Concat([b \in 1..Len(interfaceBlocks) |->
                      IF interfaceBlocks[b].instanceName # "" THEN <<>>
                      ELSE [f \in 1..Len(interfaceBlocks[b].fields) |->
                               [block |-> interfaceBlocks[b].name,
                                field |-> interfaceBlocks[b].fields[f].name]]])
        v == ValidateInstancelessGraphicsInterfaceBlocksPerShader(
                 ValidateInstancelessGraphicsInterfaceBlocksPerShader(
                     [fields |-> instancelessFields, err |-> ""],
                     InstancelessFields(shaderInterfaceBlocks["Vertex"])),
                 InstancelessFields(shaderInterfaceBlocks["Fragment"]))
    IN  IF v.err # "" \/ numShadersHasInterfaceBlocks < 2 THEN v
        ELSE [v EXCEPT !.err = ValidateGraphicsInterfaceBlocksPerShader(
                                   shaderInterfaceBlocks["Fragment"], webglCompatibility,
                                   shaderInterfaceBlocks["Vertex"])]

\* Program::linkInterfaceBlocks: [ok, p, combinedShaderStorageBlocks]
linkInterfaceBlocks(p, att, ctx) ==
    LET Counts(blocks, maxBlocks) ==
            [t \in ShaderTypes |-> ValidateInterfaceBlocksCount(maxBlocks, blocks[t])]
        Total(counts) == counts["Vertex"].blockCount + counts["Fragment"].blockCount
                         + counts["Compute"].blockCount
        NumShaders(blocks) == Cardinality({t \in ShaderTypes : blocks[t] # <<>>})
        uniformBlocks == [t \in ShaderTypes |-> Attached(att, t).uniformBlocks]
        uniformCounts == Counts(uniformBlocks, Caps.maxShaderUniformBlocks)
        uniformMatch == ValidateInterfaceBlocksMatch(
                            NumShaders(uniformBlocks), uniformBlocks, ctx.webglCompatibility,
                            EmptyBindings)
        storageBlocks == [t \in ShaderTypes |-> Attached(att, t).shaderStorageBlocks]
        storageCounts == Counts(storageBlocks, Caps.maxShaderStorageBlocks)
        storageMatch == ValidateInterfaceBlocksMatch(
                            NumShaders(storageBlocks), storageBlocks, ctx.webglCompatibility,
                            uniformMatch.fields)
        Fail(msg) == [ok |-> FALSE, p |-> Log(p, msg), combinedShaderStorageBlocks |-> 0]
    IN  IF \E t \in ShaderTypes : ~uniformCounts[t].ok
        THEN Fail("shader uniform block count exceeds GL_MAX_UNIFORM_BUFFERS")
        ELSE IF Total(uniformCounts) > Caps.maxCombinedUniformBlocks
        THEN Fail("The sum of the number of active uniform blocks exceeds MAX_COMBINED_UNIFORM_BLOCKS")
        ELSE IF uniformMatch.err # "" THEN Fail(uniformMatch.err)
        ELSE IF ~VersionAtLeast(ctx.clientVersion, 3, 1)
        THEN [ok |-> TRUE, p |-> p, combinedShaderStorageBlocks |-> 0]
        ELSE IF \E t \in ShaderTypes : ~storageCounts[t].ok
        THEN Fail("shader shader storage block count exceeds GL_MAX_SHADER_STORAGE_BLOCKS")
        ELSE IF Total(storageCounts) > Caps.maxCombinedShaderStorageBlocks
        THEN Fail("The sum of the number of active shader storage blocks exceeds MAX_COMBINED_SHADER_STORAGE_BLOCKS")
        ELSE IF storageMatch.err # "" THEN Fail(storageMatch.err)
        ELSE [ok |-> TRUE, p |-> p, combinedShaderStorageBlocks |-> Total(storageCounts)]

\* LinkValidateProgramGlobalNames: no uniform has the name of an attribute.
LinkValidateProgramGlobalNames(att) ==
    LET attrs == Attached(att, "Vertex").attributes
    IN  \A t \in 1..Len(AllShaderTypes) :
          LET us == Attached(att, AllShaderTypes[t]).uniforms
          IN  \A i \in 1..Len(us), a \in 1..Len(attrs) : us[i].name # attrs[a].name

\* std::vector<VariableLocation>::resize
Resize(locs, n) ==
    IF n <= Len(locs) THEN SubSeq(locs, 1, n)
    ELSE locs \o [k \in 1..(n - Len(locs)) |-> VariableLocation0]

FindUsedOutputLocation(outputLocations, baseLocation, elementCount0, reservedLocations, variableIndex) ==
    LET size == Len(outputLocations)
        elementCount == IF baseLocation + elementCount0 > size
                        THEN (IF baseLocation < size THEN size - baseLocation ELSE 0)
                        ELSE elementCount0
    IN  \E elementIndex \in 0..(elementCount - 1) :
            /\ used(outputLocations[baseLocation + elementIndex + 1])
            /\ VariableLocation(elementIndex, variableIndex) \notin reservedLocations

\* AssignOutputLocations: [locs, location], location being the new
\* outputVariable.location (oldLocation when every element is reserved).
AssignOutputLocations(outputLocations, baseLocation, elementCount, reservedLocations, variableIndex, oldLocation) ==
    LET resized == IF baseLocation + elementCount > Len(outputLocations)
                   THEN Resize(outputLocations, baseLocation + elementCount)
                   ELSE outputLocations
        free == {e \in 0..(elementCount - 1) :
                    VariableLocation(e, variableIndex) \notin reservedLocations}
    IN  [locs |-> [l \in 1..Len(resized) |->
                     IF (l - 1 - baseLocation) \in free
                     THEN VariableLocation(l - 1 - baseLocation, variableIndex)
                     ELSE resized[l]],
         location |-> IF free = {} THEN oldLocation ELSE baseLocation]

\* The name a fragment output is bound under: "name" is [name, arrayIndex
\* kUnused], "name[i]" is [name, arrayIndex i]: ParseArrayIndex gives
\* arrayIndex (GL_INVALID_INDEX without a subscript) and the base name.
BindingName(name, arrayIndex) == [name |-> name, arrayIndex |-> arrayIndex]

\* angle::BeginsWith(str, prefix, prefixLength), prefix being a base name:
\* the first prefixLength characters of the two names are the same.
BeginsWith(str, prefix) ==
    LET Characters(name) ==
            CASE name = "color" -> <<"c", "o", "l", "o", "r">>
              [] name = "o" -> <<"o">>
              [] name = "ob" -> <<"o", "b">>
              [] name = "oc" -> <<"o", "c">>
              [] name = "od" -> <<"o", "d">>
              [] OTHER -> <<name>>
    IN  /\ Len(Characters(prefix)) <= Len(Characters(str))
        /\ SubSeq(Characters(str), 1, Len(Characters(prefix))) = Characters(prefix)

\* ProgramAliasedBindings::bindLocation: b maps a name to [location, aliased]
\* (first a bindLocation that does not mark "name" as aliased)
aliasedBindLocationUnmarked(b, index, name) ==
    [n \in DOMAIN b \cup {name} |->
        IF n = name THEN [location |-> index, aliased |-> FALSE] ELSE b[n]]
aliasedBindLocation(b, index, name) ==
    [n \in DOMAIN b \cup {name} |->
        IF n = name THEN [location |-> index, aliased |-> FALSE]
        ELSE IF name.arrayIndex = 0 /\ n = BindingName(name.name, kUnused)
        THEN [b[n] EXCEPT !.aliased = TRUE]
        ELSE b[n]]
\* ProgramAliasedBindings::getBindingByName
aliasedGetBindingByName(b, name) == IF name \in DOMAIN b THEN b[name].location ELSE -1
\* ProgramAliasedBindings::getBinding: the name of an output variable has no
\* subscript, so of the two array branches the GL_INVALID_INDEX one is taken.
aliasedGetBinding(b, variable) ==
    IF variable.isArray /\ BindingName(variable.name, kUnused) \in DOMAIN b
       /\ ~b[BindingName(variable.name, kUnused)].aliased
    THEN b[BindingName(variable.name, kUnused)].location
    ELSE IF variable.isArray THEN aliasedGetBindingByName(b, BindingName(variable.name, 0))
    ELSE aliasedGetBindingByName(b, BindingName(variable.name, kUnused))

\* The bindings of a ProgramAliasedBindings in the order its std::map
\* iterates: by name as std::string orders them, "name" before "name[i]".
RECURSIVE SortedBindings(_)
SortedBindings(names) ==
    LET OutputNames == <<"color", "o", "ob", "oc", "od">>
        NameRank(name) == CHOOSE i \in 1..Len(OutputNames) : OutputNames[i] = name
        BindingBefore(m, n) ==
            \/ NameRank(m.name) < NameRank(n.name)
            \/ m.name = n.name /\ m.arrayIndex <= n.arrayIndex
    IN  IF names = {} THEN <<>>
        ELSE LET first == CHOOSE m \in names : \A n \in names : BindingBefore(m, n)
             IN  <<first>> \o SortedBindings(names \ {first})

\* Program::getOutputLocationForLink / isOutputSecondaryForLink
getOutputLocationForLink(outputVariable, locationBindings) ==
    IF outputVariable.location # -1 THEN outputVariable.location
    ELSE aliasedGetBinding(locationBindings, outputVariable)
isOutputSecondaryForLink(outputVariable, indexBindings) ==
    IF outputVariable.index # -1 THEN outputVariable.index = 1
    ELSE aliasedGetBinding(indexBindings, outputVariable) = 1

\* The primary or the secondary location list of acc = [p, err].
OutputLocationsOf(p, secondary) ==
    IF secondary THEN p.st.mSecondaryOutputLocations ELSE p.exe.mOutputLocations
WithOutputLocations(p, secondary, a, i) ==
    IF secondary
    THEN [p EXCEPT !.st.mSecondaryOutputLocations = a.locs,
                   !.exe.mOutputVariables[i].location = a.location]
    ELSE [p EXCEPT !.exe.mOutputLocations = a.locs,
                   !.exe.mOutputVariables[i].location = a.location]

SetOutputLocations(p, secondary, locs) ==
    IF secondary THEN [p EXCEPT !.st.mSecondaryOutputLocations = locs]
    ELSE [p EXCEPT !.exe.mOutputLocations = locs]

\* First loop of linkOutputVariables after the tables are set up (lines
\* 4131-4179): the API bindings of array elements other than [0], from binding
\* k and output variable i - 1 on.  acc = [p, reserved, err].
RECURSIVE ReserveArrayBindings(_, _, _, _, _, _)
ReserveArrayBindings(acc, names, k, i, locB, idxB) ==
    IF k > Len(names) \/ acc.err # "" THEN acc
    ELSE IF names[k].arrayIndex = 0 \/ names[k].arrayIndex = kUnused
            \/ i > Len(acc.p.exe.mOutputVariables)
    THEN ReserveArrayBindings(acc, names, k + 1, 1, locB, idxB)
    ELSE
      LET outputVariable == acc.p.exe.mOutputVariables[i]
          arrayIndex == names[k].arrayIndex
          secondary == aliasedGetBindingByName(idxB, names[k]) = 1
          location == locB[names[k]].location
          outputLocations ==
              IF location >= Len(OutputLocationsOf(acc.p, secondary))
              THEN Resize(OutputLocationsOf(acc.p, secondary), location + 1)
              ELSE OutputLocationsOf(acc.p, secondary)
      IN  IF outputVariable.builtin \/ ~outputVariable.isArray
             \/ ~BeginsWith(outputVariable.name, names[k].name)
             \/ arrayIndex >= outputVariable.count
          THEN ReserveArrayBindings(acc, names, k, i + 1, locB, idxB)
          ELSE IF used(outputLocations[location + 1])
          THEN [acc EXCEPT !.p = SetOutputLocations(@, secondary, outputLocations),
                           !.err = "Location of variable conflicts with another variable."]
          ELSE ReserveArrayBindings(
                 [acc EXCEPT
                    !.p = SetOutputLocations(
                            @, secondary,
                            [outputLocations EXCEPT
                               ![location + 1] = VariableLocation(arrayIndex, i - 1)]),
                    !.reserved = @ \cup {VariableLocation(arrayIndex, i - 1)}],
                 names, k, i + 1, locB, idxB)

\* Second loop of linkOutputVariables: outputs whose location is fixed.
\* i is outputVariableIndex + 1.
RECURSIVE ReserveFixedOutputs(_, _, _, _, _)
ReserveFixedOutputs(acc, i, locB, idxB, reserved) ==
    IF i > Len(acc.p.exe.mOutputVariables) \/ acc.err # "" THEN acc
    ELSE
      LET outputVariable == acc.p.exe.mOutputVariables[i]
          fixedLocation == getOutputLocationForLink(outputVariable, locB)
          secondary == isOutputSecondaryForLink(outputVariable, idxB)
          outputLocations == OutputLocationsOf(acc.p, secondary)
      IN  IF outputVariable.builtin \/ fixedLocation = -1
          THEN ReserveFixedOutputs(acc, i + 1, locB, idxB, reserved)
          ELSE IF FindUsedOutputLocation(outputLocations, fixedLocation,
                                         outputVariable.count, reserved, i - 1)
          THEN [acc EXCEPT !.err = "Location of variable conflicts with another variable."]
          ELSE ReserveFixedOutputs(
                 [acc EXCEPT !.p = WithOutputLocations(
                      @, secondary,
                      AssignOutputLocations(outputLocations, fixedLocation,
                                            outputVariable.count, reserved, i - 1,
                                            outputVariable.location), i)],
                 i + 1, locB, idxB, reserved)

\* Third loop of linkOutputVariables: first fit for the other outputs, and the
\* check of every output against maxLocation.
RECURSIVE AssignFreeOutputs(_, _, _, _, _, _)
AssignFreeOutputs(acc, i, locB, idxB, reserved, maxLocation) ==
    IF i > Len(acc.p.exe.mOutputVariables) \/ acc.err # "" THEN acc
    ELSE
      LET outputVariable == acc.p.exe.mOutputVariables[i]
          fixedLocation == getOutputLocationForLink(outputVariable, locB)
          secondary == isOutputSecondaryForLink(outputVariable, idxB)
          outputLocations == OutputLocationsOf(acc.p, secondary)
          elementCount == outputVariable.count
          fits == {b \in 0..Len(outputLocations) :
                      ~FindUsedOutputLocation(outputLocations, b, elementCount,
                                              reserved, i - 1)}
          baseLocation == IF fixedLocation # -1 THEN fixedLocation
                          ELSE CHOOSE b \in fits : \A c \in fits : b <= c
          p1 == IF fixedLocation # -1 THEN acc.p
                ELSE WithOutputLocations(
                       acc.p, secondary,
                       AssignOutputLocations(outputLocations, baseLocation, elementCount,
                                             reserved, i - 1, outputVariable.location), i)
      IN  IF outputVariable.builtin
          THEN AssignFreeOutputs(acc, i + 1, locB, idxB, reserved, maxLocation)
          ELSE IF baseLocation + elementCount > maxLocation
                  /\ (baseLocation >= maxLocation
                      \/ FindUsedOutputLocation(OutputLocationsOf(p1, secondary),
                                                maxLocation,
                                                baseLocation + elementCount - maxLocation,
                                                reserved, i - 1))
          THEN [p |-> p1, err |-> "Could not fit output variable into available locations"]
          ELSE AssignFreeOutputs([acc EXCEPT !.p = p1], i + 1, locB, idxB, reserved,
                                 maxLocation)

\* The locations the active outputs occupy (first loop of linkOutputVariables).
ActiveOutputLocations(outputVariables) ==
    UNION {{(IF outputVariables[i].location = -1 THEN 0 ELSE outputVariables[i].location) + e :
               e \in 0..(outputVariables[i].count - 1)} :
           i \in {j \in 1..Len(outputVariables) :
                    ~outputVariables[j].builtin
                    \/ outputVariables[j].name \in {"gl_FragColor", "gl_FragData"}}}

\* Program::linkOutputVariables: [ok, p].  locB and idxB are
\* mFragmentOutputLocations and mFragmentOutputIndexes.
linkOutputVariables(p, att, ctx, locB, idxB, combinedImageUniformsCount) ==
    LET fs == Attached(att, "Fragment")
        outputVariables == fs.outputs
        active == ActiveOutputLocations(outputVariables)
        p1 == [p EXCEPT !.st.mActiveOutputVariables = active]
        p2 == [p1 EXCEPT !.exe.mOutputVariables = outputVariables]
        a1 == ReserveArrayBindings([p |-> p2, reserved |-> {}, err |-> ""],
                                   SortedBindings(DOMAIN locB), 1, 1, locB, idxB)
        reservedLocations == a1.reserved
        a2 == ReserveFixedOutputs([p |-> a1.p, err |-> a1.err], 1, locB, idxB,
                                  reservedLocations)
        maxLocation == IF a2.p.st.mSecondaryOutputLocations # <<>>
                       THEN Caps.maxDualSourceDrawBuffers ELSE Caps.maxDrawBuffers
        a3 == AssignFreeOutputs(a2, 1, locB, idxB, reservedLocations, maxLocation)
    IN  IF ~IsAttached(att, "Fragment") THEN [ok |-> TRUE, p |-> p]
        ELSE IF VersionAtLeast(ctx.clientVersion, 3, 1)
                /\ combinedImageUniformsCount + Cardinality(active)
                     > Caps.maxCombinedShaderOutputResources
        THEN [ok |-> FALSE,
              p |-> Log(p1, "exceeds MAX_COMBINED_SHADER_OUTPUT_RESOURCES")]
        ELSE IF fs.version = 100 THEN [ok |-> TRUE, p |-> p1]
        ELSE IF a1.err # "" THEN [ok |-> FALSE, p |-> Log(a1.p, a1.err)]
        ELSE IF a2.err # "" THEN [ok |-> FALSE, p |-> Log(a2.p, a2.err)]
        ELSE IF a3.err # "" THEN [ok |-> FALSE, p |-> Log(a3.p, a3.err)]
        ELSE [ok |-> TRUE, p |-> a3.p]

\* ProgramExecutable::linkMergedVaryings: every transform feedback varying
\* name must be an output of the vertex stage and be named once; the linked
\* transform feedback varyings are then gathered.  [ok, p]
linkMergedVaryings(p, att, xfbNames) ==
    LET outs == Attached(att, "Vertex").outVaryings
        known(n) == \E o \in 1..Len(outs) : outs[o].name = n
    IN  IF \E i \in 1..Len(xfbNames) : ~known(xfbNames[i])
        THEN [ok |-> FALSE,
              p |-> Log(p, "Transform feedback varying does not exist in the vertex shader.")]
        ELSE IF \E i, j \in 1..Len(xfbNames) : i # j /\ xfbNames[i] = xfbNames[j]
        THEN [ok |-> FALSE,
              p |-> Log(p, "Two transform feedback varyings specify the same output variable")]
        ELSE [ok |-> TRUE, p |-> [p EXCEPT !.exe.mLinkedTransformFeedbackVaryings = xfbNames]]

\* Program::updateLinkedShaderStages
updateLinkedShaderStages(p, att) ==
    LET stages == {t \in ShaderTypes : IsAttached(att, t)}
    IN  [p EXCEPT !.exe.mLinkedShaderStages = stages,
                  !.exe.mIsCompute = "Compute" \in stages]

-----------------------------------------------------------------------------
(* Uniform block bindings and sampler uniforms.                            *)

\* bindUniformBlock that leaves mActiveUniformBlockBindings alone.
bindUniformBlockKeepsBits(p, uniformBlockIndex, uniformBlockBinding) ==
    [p EXCEPT !.exe.mUniformBlocks[uniformBlockIndex + 1].binding = uniformBlockBinding]

\* Program::bindUniformBlock (the set holds the indices whose bit is set)
bindUniformBlock(p, uniformBlockIndex, uniformBlockBinding) ==
    [p EXCEPT !.exe.mUniformBlocks[uniformBlockIndex + 1].binding = uniformBlockBinding,
              !.st.mActiveUniformBlockBindings =
                  IF uniformBlockBinding # 0 THEN @ \cup {uniformBlockIndex}
                  ELSE @ \ {uniformBlockIndex}]

\* Program::initInterfaceBlockBindings, from blockIndex on
RECURSIVE initInterfaceBlockBindings(_, _)
initInterfaceBlockBindings(p, blockIndex) ==
    IF blockIndex >= Len(p.exe.mUniformBlocks) THEN p
    ELSE initInterfaceBlockBindings(
           bindUniformBlock(p, blockIndex, p.exe.mUniformBlocks[blockIndex + 1].binding),
           blockIndex + 1)

\* ProgramExecutable::updateActiveSamplers: every bound unit of every sampler
\* binding is counted and its bit is set in the mask.
ExecutableUpdateActiveSamplers(p) ==
    LET units == Concat([b \in 1..Len(p.exe.mSamplerBindings) |->
                            p.exe.mSamplerBindings[b].boundTextureUnits])
    IN  [p EXCEPT !.exe.mActiveSamplerRefCounts =
                      [unit \in 0..MaxTextureUnit |->
                          @[unit] + Cardinality({k \in 1..Len(units) : units[k] = unit})],
                  !.exe.mActiveSamplersMask = @ \cup {units[k] : k \in 1..Len(units)}]

\* ProgramState::updateActiveSamplers
updateActiveSamplers(p) ==
    ExecutableUpdateActiveSamplers(
        [p EXCEPT !.exe.mActiveSamplerRefCounts = [unit \in 0..MaxTextureUnit |-> 0]])

\* ProgramState::isSamplerUniformIndex
isSamplerUniformIndex(p, index) ==
    p.exe.mSamplerUniformRange.low <= index /\ index < p.exe.mSamplerUniformRange.high

\* The loop of Program::updateSamplerUniform, from element arrayIndex on.  A
\* count below 0 stands for the uint32_t that wrapped around (ASSERT(oldRefCount > 0)).
\* (First a loop that leaves the count of the old unit.)
RECURSIVE UpdateSamplerElementsKeepsOld(_, _, _, _, _, _)
UpdateSamplerElementsKeepsOld(p, samplerIndex, locationInfo, safeUniformCount, v, arrayIndex) ==
    IF arrayIndex >= safeUniformCount THEN p
    ELSE
      LET slot == arrayIndex + locationInfo.arrayIndex + 1
          oldTextureUnit == p.exe.mSamplerBindings[samplerIndex + 1].boundTextureUnits[slot]
          newTextureUnit == v[arrayIndex + 1]
          oldRefCount == p.exe.mActiveSamplerRefCounts[oldTextureUnit]
          newRefCount == p.exe.mActiveSamplerRefCounts[newTextureUnit] + 1
          set == IF newRefCount = 1 THEN {newTextureUnit} ELSE {}
          reset == IF oldRefCount = 0 THEN {oldTextureUnit} ELSE {}
          p1 == IF oldTextureUnit = newTextureUnit THEN p
                ELSE [p EXCEPT
                        !.exe.mSamplerBindings[samplerIndex + 1].boundTextureUnits[slot] =
                            newTextureUnit,
                        !.exe.mActiveSamplerRefCounts =
                            [@ EXCEPT ![oldTextureUnit] = oldRefCount,
                                      ![newTextureUnit] = newRefCount],
                        !.exe.mActiveSamplersMask = (@ \cup set) \ reset]
      IN  UpdateSamplerElementsKeepsOld(p1, samplerIndex, locationInfo, safeUniformCount, v,
                                arrayIndex + 1)
RECURSIVE UpdateSamplerElements(_, _, _, _, _, _)
UpdateSamplerElements(p, samplerIndex, locationInfo, safeUniformCount, v, arrayIndex) ==
    IF arrayIndex >= safeUniformCount THEN p
    ELSE
      LET slot == arrayIndex + locationInfo.arrayIndex + 1
          oldTextureUnit == p.exe.mSamplerBindings[samplerIndex + 1].boundTextureUnits[slot]
          newTextureUnit == v[arrayIndex + 1]
          oldRefCount == p.exe.mActiveSamplerRefCounts[oldTextureUnit] - 1
          newRefCount == p.exe.mActiveSamplerRefCounts[newTextureUnit] + 1
          set == IF newRefCount = 1 THEN {newTextureUnit} ELSE {}
          reset == IF oldRefCount = 0 THEN {oldTextureUnit} ELSE {}
          p1 == IF oldTextureUnit = newTextureUnit THEN p
                ELSE [p EXCEPT
                        !.exe.mSamplerBindings[samplerIndex + 1].boundTextureUnits[slot] =
                            newTextureUnit,
                        !.exe.mActiveSamplerRefCounts =
                            [@ EXCEPT ![oldTextureUnit] = oldRefCount,
                                      ![newTextureUnit] = newRefCount],
                        !.exe.mActiveSamplersMask = (@ \cup set) \ reset]
      IN  UpdateSamplerElements(p1, samplerIndex, locationInfo, safeUniformCount, v,
                                arrayIndex + 1)

\* Program::updateSamplerUniform.  A sampler index past the binding list (a
\* sampler range loaded without its bindings) is an access outside the vector,
\* which is undefined: the executions that go on leave the tables as they are.
updateSamplerUniform(p, locationInfo, clampedCount, v) ==
    LET samplerIndex == locationInfo.index - p.exe.mSamplerUniformRange.low
        size == Len(p.exe.mSamplerBindings[samplerIndex + 1].boundTextureUnits)
        remaining == size - locationInfo.arrayIndex
        safeUniformCount == IF clampedCount < remaining THEN clampedCount ELSE remaining
    IN  IF samplerIndex >= Len(p.exe.mSamplerBindings) THEN p
        ELSE IF locationInfo.arrayIndex >= size THEN p
        ELSE UpdateSamplerElements(p, samplerIndex, locationInfo, safeUniformCount, v, 0)

\* Program::shouldIgnoreUniform
shouldIgnoreUniform(p, location) ==
    location = -1 \/ p.st.mUniformLocations[location + 1].ignored

\* Program::clampUniformCount with vectorSize 1 on a scalar-typed uniform
clampUniformCount(p, locationInfo, count) ==
    LET remainingElements == p.exe.mUniforms[locationInfo.index + 1].count
                             - locationInfo.arrayIndex
    IN  IF count = 1 THEN 1
        ELSE IF count > remainingElements THEN remainingElements ELSE count

\* Program::setUniform1iv
setUniform1iv(p, location, v) ==
    IF shouldIgnoreUniform(p, location) THEN p
    ELSE LET locationInfo == p.st.mUniformLocations[location + 1]
             clampedCount == clampUniformCount(p, locationInfo, Len(v))
         IN  IF isSamplerUniformIndex(p, locationInfo.index)
             THEN updateSamplerUniform(p, locationInfo, clampedCount, v)
             ELSE p

\* Program::getUniformLocation: the first used location of element 0 of the
\* uniform of that name, or -1.
getUniformLocation(p, name) ==
    LET locs == p.st.mUniformLocations
        hits == {l \in 1..Len(locs) :
                    /\ used(locs[l]) /\ locs[l].arrayIndex = 0
                    /\ p.exe.mUniforms[locs[l].index + 1].name = name}
    IN  IF hits = {} THEN -1 ELSE (CHOOSE l \in hits : \A m \in hits : l <= m) - 1

\* Program::setUniformValuesFromBindingQualifiers, from samplerIndex on.
\* A sampler range that runs past the uniform list makes the loop read outside
\* the vector, which is undefined: the process faults there, or what is read
\* names no uniform (location -1) and the element is skipped.  The executions
\* that go on are the ones with a next state.
RECURSIVE setUniformValuesFromBindingQualifiers(_, _)
setUniformValuesFromBindingQualifiers(p, samplerIndex) ==
    IF samplerIndex >= p.exe.mSamplerUniformRange.high THEN p
    ELSE IF samplerIndex >= Len(p.exe.mUniforms) THEN p
    ELSE
      LET samplerUniform == p.exe.mUniforms[samplerIndex + 1]
          boundTextureUnits == [e \in 1..samplerUniform.count |->
                                   samplerUniform.binding + e - 1]
          p1 == IF samplerUniform.binding # -1
                THEN setUniform1iv(p, getUniformLocation(p, samplerUniform.name),
                                   boundTextureUnits)
                ELSE p
      IN  setUniformValuesFromBindingQualifiers(p1, samplerIndex + 1)

\* Program::postResolveLink
postResolveLink(p) ==
    LET p1 == updateActiveSamplers(p)
    IN  setUniformValuesFromBindingQualifiers(p1, p1.exe.mSamplerUniformRange.low)

-----------------------------------------------------------------------------
(* Program binaries.                                                       *)

ANGLE_COMMIT_HASH == "thisBuild"

\* ProgramExecutable::save / load: the linked stages and the attribute mask.
ExecutableSave(exe) ==
    [mLinkedShaderStages |-> exe.mLinkedShaderStages, mIsCompute |-> exe.mIsCompute,
     mActiveAttribLocationsMask |-> exe.mActiveAttribLocationsMask]
ExecutableLoad(exe, saved) ==
    [exe EXCEPT !.mLinkedShaderStages = saved.mLinkedShaderStages,
                !.mIsCompute = saved.mIsCompute,
                !.mActiveAttribLocationsMask = saved.mActiveAttribLocationsMask]

\* ProgramExecutable::getImageBindings
getImageBindings(exe) ==
    IF exe.mIsCompute THEN exe.mComputeImageBindings ELSE exe.mGraphicsImageBindings

\* Program::serialize: the stream as the record of what is written to it.
serialize(p, ctx) ==
    [present |-> TRUE,
     commitHash |-> ANGLE_COMMIT_HASH,
     majorVersion |-> IF ctx.present THEN ctx.clientVersion[1] ELSE 2,
     minorVersion |-> IF ctx.present THEN ctx.clientVersion[2] ELSE 0,
     executable |-> ExecutableSave(p.exe),
     programInputs |-> p.exe.mProgramInputs,
     uniforms |-> p.exe.mUniforms,
     uniformLocations |-> p.st.mUniformLocations,
     uniformBlocks |-> p.exe.mUniformBlocks,
     atomicCounterBuffers |-> p.exe.mAtomicCounterBuffers,
     linkedTransformFeedbackVaryings |-> p.exe.mLinkedTransformFeedbackVaryings,
     outputVariables |-> p.exe.mOutputVariables,
     outputLocations |-> p.exe.mOutputLocations,
     secondaryOutputLocations |-> p.st.mSecondaryOutputLocations,
     activeOutputVariables |-> p.st.mActiveOutputVariables,
     defaultUniformRange |-> p.exe.mDefaultUniformRange,
     samplerUniformRange |-> p.exe.mSamplerUniformRange,
     \* of a sampler binding only its type and its number of elements are written
     samplerBindings |-> [b \in 1..Len(p.exe.mSamplerBindings) |->
                            [textureType |-> p.exe.mSamplerBindings[b].textureType,
                             size |-> Len(p.exe.mSamplerBindings[b].boundTextureUnits)]],
     imageUniformRange |-> p.exe.mImageUniformRange,
     imageBindings |-> getImageBindings(p.exe),
     atomicCounterUniformRange |-> p.st.mAtomicCounterUniformRange]

\* Program::deserialize up to the transform feedback check (lines 4751-4851)
DeserializeHead(p, binary) ==
    LET n == Len(binary.uniformBlocks)
    IN  [p EXCEPT
           !.exe = [ExecutableLoad(@, binary.executable) EXCEPT
                      !.mProgramInputs = @ \o binary.programInputs,
                      !.mUniforms = @ \o binary.uniforms,
                      !.mUniformBlocks = @ \o binary.uniformBlocks,
                      !.mAtomicCounterBuffers = @ \o binary.atomicCounterBuffers],
           !.st.mUniformLocations = @ \o binary.uniformLocations,
           !.st.mActiveUniformBlockBindings =
               (@ \ (0..(n - 1)))
               \cup {i \in 0..(n - 1) : binary.uniformBlocks[i + 1].binding # 0}]

\* The tail of deserialize reading no bound unit of an image binding.
DeserializeTailUnboundImages(p, binary) ==
    LET images == [b \in 1..Len(binary.imageBindings) |->
                      [boundImageUnits |->
                           [e \in 1..Len(binary.imageBindings[b].boundImageUnits) |-> 0]]]
        samplers == [b \in 1..Len(binary.samplerBindings) |->
                        [textureType |-> binary.samplerBindings[b].textureType,
                         boundTextureUnits |->
                             [e \in 1..binary.samplerBindings[b].size |-> 0]]]
    IN  [p EXCEPT
           !.exe.mLinkedTransformFeedbackVaryings =
               @ \o binary.linkedTransformFeedbackVaryings,
           !.exe.mOutputVariables = @ \o binary.outputVariables,
           !.exe.mOutputLocations = @ \o binary.outputLocations,
           !.st.mSecondaryOutputLocations = @ \o binary.secondaryOutputLocations,
           !.st.mActiveOutputVariables = binary.activeOutputVariables,
           !.exe.mDefaultUniformRange = binary.defaultUniformRange,
           !.exe.mSamplerUniformRange = binary.samplerUniformRange,
           !.exe.mSamplerBindings = @ \o samplers,
           !.exe.mImageUniformRange = binary.imageUniformRange,
           !.exe.mComputeImageBindings = IF p.exe.mIsCompute THEN @ \o images ELSE @,
           !.exe.mGraphicsImageBindings = IF p.exe.mIsCompute THEN @ ELSE @ \o images,
           !.st.mAtomicCounterUniformRange = binary.atomicCounterUniformRange]

\* Program::deserialize after the transform feedback check (lines 4863-4983)
DeserializeTail(p, binary) ==
    LET images == [b \in 1..Len(binary.imageBindings) |->
                      [boundImageUnits |-> binary.imageBindings[b].boundImageUnits]]
        samplers == [b \in 1..Len(binary.samplerBindings) |->
                        [textureType |-> binary.samplerBindings[b].textureType,
                         boundTextureUnits |->
                             [e \in 1..binary.samplerBindings[b].size |-> 0]]]
    IN  [p EXCEPT
           !.exe.mLinkedTransformFeedbackVaryings =
               @ \o binary.linkedTransformFeedbackVaryings,
           !.exe.mOutputVariables = @ \o binary.outputVariables,
           !.exe.mOutputLocations = @ \o binary.outputLocations,
           !.st.mSecondaryOutputLocations = @ \o binary.secondaryOutputLocations,
           !.st.mActiveOutputVariables = binary.activeOutputVariables,
           !.exe.mDefaultUniformRange = binary.defaultUniformRange,
           !.exe.mSamplerUniformRange = binary.samplerUniformRange,
           !.exe.mSamplerBindings = @ \o samplers,
           !.exe.mImageUniformRange = binary.imageUniformRange,
           !.exe.mComputeImageBindings = IF p.exe.mIsCompute THEN @ \o images ELSE @,
           !.exe.mGraphicsImageBindings = IF p.exe.mIsCompute THEN @ ELSE @ \o images,
           !.st.mAtomicCounterUniformRange = binary.atomicCounterUniformRange]

\* Program::deserialize: [result, p]
deserialize(p, ctx, binary) ==
    LET head == DeserializeHead(p, binary)
    IN  IF binary.commitHash # ANGLE_COMMIT_HASH
        THEN [result |-> "Incomplete", p |-> Log(p, "Invalid program binary version.")]
        ELSE IF binary.majorVersion # ctx.clientVersion[1]
                \/ binary.minorVersion # ctx.clientVersion[2]
        THEN [result |-> "Incomplete",
              p |-> Log(p, "Cannot load program binaries across different ES context versions.")]
        ELSE IF Len(binary.linkedTransformFeedbackVaryings) > 0
                /\ ctx.disableProgramCachingForTransformFeedback
        THEN [result |-> "Incomplete",
              p |-> Log(head, "Current driver does not support transform feedback in binary programs.")]
        ELSE [result |-> "Continue", p |-> postResolveLink(DeserializeTail(head, binary))]

\* ANGLE_TRY returns from the caller on angle::Result::Stop only ("Incomplete
\* means a cache miss", line 1483).
IsError(result) == result = "Stop"

\* loadBinary were the backend's load waited for inside the call: the program
\* is linked, and has no LinkingState, when the call returns.
loadBinaryResolved(p, ctx, binary, eventReturned) ==
    LET d == deserialize(unlink(p), ctx, binary)
    IN  IF IsError(d.result) THEN [result |-> d.result, p |-> d.p, loaded |-> FALSE]
        ELSE IF eventReturned
        THEN [result |-> "Continue",
              p |-> [d.p EXCEPT !.mLinked = TRUE, !.ls = NoLinkingState],
              loaded |-> TRUE]
        ELSE [result |-> "Incomplete", p |-> [d.p EXCEPT !.ls = NoLinkingState],
              loaded |-> TRUE]

\* Program::loadBinary: [result, p, loaded].  eventReturned says whether
\* ProgramImpl::load hands back a LinkEvent; loaded whether it was called.
loadBinary(p, ctx, binary, eventReturned) ==
    LET d == deserialize(unlink(p), ctx, binary)
    IN  IF IsError(d.result) THEN [result |-> d.result, p |-> d.p, loaded |-> FALSE]
        ELSE IF eventReturned
        THEN [result |-> "Continue",
              p |-> [d.p EXCEPT !.ls = [NoLinkingState EXCEPT
                                          !.present = TRUE, !.linkingFromBinary = TRUE,
                                          !.linkEvent = "running"]],
              loaded |-> TRUE]
        ELSE [result |-> "Incomplete", p |-> [d.p EXCEPT !.ls = NoLinkingState],
              loaded |-> TRUE]

-----------------------------------------------------------------------------
(* The memory program cache (MemoryProgramCache): a least-recently-used    *)
(* list of [key, value], the newest entry last.                            *)

\* The key of a program: what it is linked from.
ComputeHash(ctx, att, bindings, xfbNames) ==
    [shaders |-> att, attribs |-> bindings, xfb |-> xfbNames, version |-> ctx.clientVersion]

CacheHas(c, key) == \E i \in 1..Len(c) : c[i].key = key
CacheGet(c, key) == (CHOOSE e \in {c[i] : i \in 1..Len(c)} : e.key = key).value
CacheRemove(c, key) == SelectSeq(c, LAMBDA e : e.key # key)
CachePut(c, key, value) ==
    LET all == Append(CacheRemove(c, key), [key |-> key, value |-> value])
    IN  IF Len(all) > MaxCacheEntries
        THEN SubSeq(all, Len(all) - MaxCacheEntries + 1, Len(all)) ELSE all

\* MemoryProgramCache::getProgram: [result, p, cache, loaded].  A binary found
\* under the key is loaded with Program::loadBinary; a binary that does not
\* load is evicted and the lookup is a miss.
getProgram(p, ctx, c, key, eventReturned) ==
    IF ~CacheHas(c, key)
    THEN [result |-> "Incomplete", p |-> p, cache |-> c, loaded |-> FALSE]
    ELSE LET r == loadBinary(p, ctx, CacheGet(c, key), eventReturned)
         IN  IF r.result = "Continue"
             THEN [result |-> "Continue", p |-> r.p, cache |-> c, loaded |-> TRUE]
             ELSE [result |-> "Incomplete", p |-> r.p, cache |-> CacheRemove(c, key),
                   loaded |-> TRUE]

-----------------------------------------------------------------------------
(* link / resolveLink.                                                     *)

\* ProgramLinkedResourcesLinker::linkResources, run by ProgramImpl::link: the
\* uniform blocks of the attached stages become the program's block list, a
\* block that several stages declare being listed once.
BackendLinkResources(p, att) ==
    LET blocks == Concat([t \in 1..Len(AllShaderTypes) |->
                            Attached(att, AllShaderTypes[t]).uniformBlocks])
        first == {i \in 1..Len(blocks) : \A j \in 1..(i - 1) : blocks[j].name # blocks[i].name}
    IN  [p EXCEPT !.exe.mUniformBlocks = SelectSeq(blocks, LAMBDA b :
            \E i \in first : blocks[i] = b)]

\* ProgramState::updateProgramInterfaceInputs: a program whose first stage
\* is not the vertex stage lists that stage's inputs as its inputs.
updateProgramInterfaceInputs(p, att) ==
    LET stages == p.exe.mLinkedShaderStages
        ins == Attached(att, "Fragment").inVaryings
    IN  IF "Vertex" \in stages \/ stages = {} THEN p
        ELSE IF "Fragment" \in stages
        THEN [p EXCEPT !.exe.mProgramInputs =
                 @ \o [i \in 1..Len(ins) |->
                         [name |-> ins[i].name, location |-> -1, components |-> 4,
                          active |-> TRUE, builtin |-> FALSE]]]
        ELSE [p EXCEPT !.exe.mProgramInputs = @ \o Attached(att, "Compute").attributes]

\* ProgramState::updateProgramInterfaceOutputs: a graphics program without a
\* fragment stage lists its last stage's output varyings as its outputs.
updateProgramInterfaceOutputs(p, att) ==
    LET stages == p.exe.mLinkedShaderStages
        outs == Attached(att, "Vertex").outVaryings
    IN  IF "Fragment" \in stages \/ "Vertex" \notin stages THEN p
        ELSE [p EXCEPT !.exe.mOutputVariables =
                 @ \o [i \in 1..Len(outs) |->
                         [name |-> outs[i].name, location |-> -1, index |-> -1,
                          count |-> 1, isArray |-> FALSE, builtin |-> FALSE]]]

\* linkImpl between two of its steps: r = [ok, p, steps, combinedImageUniforms].
\* ok turns FALSE at the step linkImpl returns from, steps names the steps run.
Started(p) ==
    [ok |-> TRUE, p |-> p, steps |-> {}, combinedImageUniforms |-> 0,
     combinedShaderStorageBlocks |-> 0]

\* What the step named name makes of r, q = [ok, p] being the step's outcome
\* on r.p: it runs when everything before it succeeded.
Then(r, name, q) ==
    IF ~r.ok THEN r
    ELSE [ok |-> q.ok, p |-> q.p, steps |-> r.steps \cup {name},
          combinedImageUniforms |-> r.combinedImageUniforms,
          combinedShaderStorageBlocks |-> r.combinedShaderStorageBlocks]

\* if (!linkAttributes(context, infoLog)) return angle::Result::Continue;
ThenLinkAttributes(r, att, bindings, ctx) ==
    Then(r, "linkAttributes", linkAttributes(r.p, att, bindings, ctx))

\* if (!linkVaryings(infoLog)) return angle::Result::Continue;
ThenLinkVaryings(r, att) == Then(r, "linkVaryings", linkVaryings(r.p, att))

\* if (!linkUniforms(..., &combinedImageUniforms, ...)) return angle::Result::Continue;
SetCombinedImageUniforms(r, u) ==
    [r EXCEPT !.combinedImageUniforms = u.combinedImageUniforms]
ThenLinkUniforms(r, att, ctx) ==
    IF ~r.ok THEN r
    ELSE SetCombinedImageUniforms(Then(r, "linkUniforms", linkUniforms(r.p, att, ctx)),
                                  linkUniforms(r.p, att, ctx))

\* if (!linkInterfaceBlocks(...)) return angle::Result::Continue;
ThenLinkInterfaceBlocks(r, att, ctx) ==
    IF ~r.ok THEN r
    ELSE [Then(r, "linkInterfaceBlocks", linkInterfaceBlocks(r.p, att, ctx))
             EXCEPT !.combinedShaderStorageBlocks =
                        linkInterfaceBlocks(r.p, att, ctx).combinedShaderStorageBlocks]

\* if (!LinkValidateProgramGlobalNames(infoLog, *this)) return angle::Result::Continue;
ThenLinkValidateProgramGlobalNames(r, att) ==
    Then(r, "LinkValidateProgramGlobalNames",
         IF LinkValidateProgramGlobalNames(att)
         THEN [ok |-> TRUE, p |-> r.p]
         ELSE [ok |-> FALSE,
               p |-> Log(r.p, "Name conflicts between a uniform and an attribute")])

\* if (!linkOutputVariables(..., combinedImageUniforms, ...)) return angle::Result::Continue;
ThenLinkOutputVariables(r, att, ctx) ==
    Then(r, "linkOutputVariables",
         linkOutputVariables(r.p, att, ctx, mFragmentOutputLocations,
                             mFragmentOutputIndexes,
                             r.combinedImageUniforms + r.combinedShaderStorageBlocks))

\* if (!mState.mExecutable->linkMergedVaryings(...)) return angle::Result::Continue;
ThenLinkMergedVaryings(r, att, xfbNames) ==
    Then(r, "linkMergedVaryings", linkMergedVaryings(r.p, att, xfbNames))

\* The check of a compute program against MAX_COMBINED_SHADER_OUTPUT_RESOURCES
ThenCheckCombinedImageUniforms(r) ==
    IF r.ok /\ r.combinedImageUniforms + r.combinedShaderStorageBlocks
               > Caps.maxCombinedShaderOutputResources
    THEN [r EXCEPT !.ok = FALSE,
                   !.p = Log(@, "exceeds MAX_COMBINED_SHADER_OUTPUT_RESOURCES")]
    ELSE r

\* The compute branch of linkImpl (lines 1507-1547)
LinkComputeResources(p, att, ctx) ==
    ThenCheckCombinedImageUniforms(
      ThenLinkInterfaceBlocks(ThenLinkUniforms(Started(p), att, ctx), att, ctx))

\* The graphics branch of linkImpl (lines 1548-1615)
LinkGraphicsResources(p, att, ctx, bindings, xfbNames) ==
    ThenLinkMergedVaryings(
      ThenLinkOutputVariables(
        ThenLinkValidateProgramGlobalNames(
          ThenLinkInterfaceBlocks(
            ThenLinkUniforms(
              ThenLinkVaryings(
                ThenLinkAttributes(Started(p), att, bindings, ctx),
                att),
              att, ctx),
            att, ctx),
          att),
        att, ctx),
      att, xfbNames)

\* programHash of linkImpl: {0} unless getProgram computes it.
ProgramHash(ctx, att, bindings, xfbNames, separable) ==
    IF ctx.hasCache /\ ~separable THEN ComputeHash(ctx, att, bindings, xfbNames)
    ELSE NoHash

\* The steps linkImpl has run when it comes to unlink().
StepsToCache(ctx, separable) ==
    {"linkValidateShaders"} \cup (IF ctx.hasCache /\ ~separable THEN {"getProgram"} ELSE {})

\* linkImpl from updateLinkedShaderStages() on (lines 1619-1638), r being what
\* its branch made of the program and steps0 the steps before the branch.
LinkImplFinish(r, att, separable, programHash, c, steps0) ==
    IF ~r.ok THEN [p |-> r.p, cache |-> c, hit |-> FALSE, steps |-> steps0 \cup r.steps]
    ELSE [p |-> [updateProgramInterfaceOutputs(
                   updateProgramInterfaceInputs(
                     BackendLinkResources(updateLinkedShaderStages(r.p, att), att), att), att)
                 EXCEPT !.ls = [present |-> TRUE, linkedExecutable |-> separable,
                                programHash |-> programHash,
                                linkEvent |-> "running",
                                linkingFromBinary |-> FALSE]],
          cache |-> c, hit |-> FALSE,
          steps |-> steps0 \cup r.steps \cup {"mProgram->link"}]

\* linkImpl after the cache lookup (lines 1484-1617), g being what
\* getProgram returned.  Cache load failed, fall through to normal linking.
LinkImplLink(g, ctx, att, bindings, xfbNames, separable) ==
    IF g.result = "Continue"
    THEN [p |-> g.p, cache |-> g.cache, hit |-> TRUE, steps |-> StepsToCache(ctx, separable)]
    ELSE LinkImplFinish(
           IF IsAttached(att, "Compute")
           THEN LinkComputeResources(
                  linkValidateShaders(unlink(g.p), att, separable).p, att, ctx)
           ELSE LinkGraphicsResources(
                  linkValidateShaders(unlink(g.p), att, separable).p, att, ctx,
                  bindings, xfbNames),
           att, separable, ProgramHash(ctx, att, bindings, xfbNames, separable), g.cache,
           StepsToCache(ctx, separable) \cup {"unlink"})

\* linkImpl after linkValidateShaders (lines 1468-1493), v being its outcome.
LinkImplGetProgram(v, ctx, att, bindings, xfbNames, separable, c, eventReturned) ==
    IF ~v.ok THEN [p |-> v.p, cache |-> c, hit |-> FALSE, steps |-> {"linkValidateShaders"}]
    ELSE LinkImplLink(
           IF ctx.hasCache /\ ~separable
           THEN getProgram(v.p, ctx, c, ProgramHash(ctx, att, bindings, xfbNames, separable),
                           eventReturned)
           ELSE [result |-> "Incomplete", p |-> v.p, cache |-> c, loaded |-> FALSE],
           ctx, att, bindings, xfbNames, separable)

\* A linkImpl that unlinks the program before it validates the shaders.
linkImplUnlinksFirst(p, ctx, att, bindings, xfbNames, separable, c, eventReturned) ==
    LinkImplGetProgram(
      linkValidateShaders(unlink(p), att, separable),
      ctx, att, bindings, xfbNames, separable, c, eventReturned)
\* Program::linkImpl: [p, cache, hit, steps].  The result is always Continue.
linkImpl(p, ctx, att, bindings, xfbNames, separable, c, eventReturned) ==
    LinkImplGetProgram(
      linkValidateShaders([p EXCEPT !.mLinked = FALSE, !.exe.infoLog = <<>>], att, separable),
      ctx, att, bindings, xfbNames, separable, c, eventReturned)

\* Program::link: linkedExecutable, when set, is the object mExecutable
\* already points at, so the assignment of line 1444 changes nothing.
link(p, ctx, att, bindings, xfbNames, separable, c, eventReturned) ==
    linkImpl(p, ctx, att, bindings, xfbNames, separable, c, eventReturned)

\* ProgramImpl::markUnusedUniformLocations: the backend reports none unused.
markUnusedUniformLocations(p) == p

\* resolveLinkImpl without the transform feedback condition on caching.
resolveLinkImplCachesAll(p, ctx, separable, c, result, putResult) ==
    LET linkingState == p.ls
        p1 == [p EXCEPT !.mLinked = (result = "Continue"), !.ls = NoLinkingState]
        p2 == postResolveLink(markUnusedUniformLocations(initInterfaceBlockBindings(p1, 0)))
    IN  IF ~p1.mLinked \/ linkingState.linkingFromBinary
        THEN [p |-> p1, cache |-> c, stored |-> FALSE]
        ELSE IF ctx.hasCache /\ ~separable /\ putResult = "Continue"
        THEN [p |-> p2,
              cache |-> CachePut(c, linkingState.programHash, serialize(p2, ctx)),
              stored |-> TRUE]
        ELSE [p |-> p2, cache |-> c, stored |-> FALSE]

\* resolveLinkImpl returning on a failed link before it takes the LinkingState.
resolveLinkImplKeepsFailed(p, ctx, separable, c, result, putResult) ==
    LET linkingState == p.ls
        p1 == [p EXCEPT !.mLinked = (result = "Continue"), !.ls = NoLinkingState]
        p2 == postResolveLink(markUnusedUniformLocations(initInterfaceBlockBindings(p1, 0)))
        doPut == /\ ctx.hasCache /\ ~separable
                 /\ (p2.exe.mLinkedTransformFeedbackVaryings = <<>>
                     \/ ~ctx.disableProgramCachingForTransformFeedback)
    IN  IF ~p1.mLinked THEN [p |-> [p EXCEPT !.mLinked = FALSE], cache |-> c, stored |-> FALSE]
        ELSE IF linkingState.linkingFromBinary
        THEN [p |-> p1, cache |-> c, stored |-> FALSE]
        ELSE IF doPut /\ putResult = "Continue"
        THEN [p |-> p2,
              cache |-> CachePut(c, linkingState.programHash, serialize(p2, ctx)),
              stored |-> TRUE]
        ELSE [p |-> p2, cache |-> c, stored |-> FALSE]

\* Program::resolveLinkImpl: [p, cache, stored].  result is what
\* LinkEvent::wait returns, putResult what MemoryProgramCache::putProgram does.
resolveLinkImpl(p, ctx, separable, c, result, putResult) ==
    LET linkingState == p.ls
        p1 == [p EXCEPT !.mLinked = (result = "Continue"), !.ls = NoLinkingState]
        p2 == postResolveLink(markUnusedUniformLocations(initInterfaceBlockBindings(p1, 0)))
        doPut == /\ ctx.hasCache /\ ~separable
                 /\ (p2.exe.mLinkedTransformFeedbackVaryings = <<>>
                     \/ ~ctx.disableProgramCachingForTransformFeedback)
    IN  IF ~p1.mLinked \/ linkingState.linkingFromBinary
        THEN [p |-> p1, cache |-> c, stored |-> FALSE]
        ELSE IF doPut /\ putResult = "Continue"
        THEN [p |-> p2,
              cache |-> CachePut(c, linkingState.programHash, serialize(p2, ctx)),
              stored |-> TRUE]
        ELSE [p |-> p2, cache |-> c, stored |-> FALSE]

-----------------------------------------------------------------------------
(* The state machine: one action per entry point of gl::Program.  An       *)
(* ASSERT(!mLinkingState) at the head of an entry point is its guard.      *)

Prog == [exe |-> mExecutable, st |-> mState, mLinked |-> mLinked, ls |-> mLinkingState]

SetProg(p) ==
    /\ mExecutable' = p.exe
    /\ mState' = p.st
    /\ mLinked' = p.mLinked
    /\ mLinkingState' = p.ls

\* What the last call was and what it did (a number returned is written out).
Ret(op, result, hit, steps, stored) ==
    [op |-> op, result |-> result, hit |-> hit, steps |-> steps, stored |-> stored]
Called(op, result) == Ret(op, result, FALSE, {}, FALSE)

NoBinary == [present |-> FALSE]

\* The contexts a program is used with: ES 3.1, with or without a memory
\* program cache, with or without the transform feedback caching workaround.
Contexts ==
    {[present |-> TRUE, clientVersion |-> <<3, 1>>, webglCompatibility |-> FALSE,
      noVertexAttributeAliasing |-> FALSE, hasCache |-> h,
      disableProgramCachingForTransformFeedback |-> f] : h \in BOOLEAN, f \in BOOLEAN}

\* Binaries an application can hold that this build or this context did not
\* write: one of another ANGLE build, one saved under an ES 2.0 context.
EmptyBinary ==
    serialize([exe |-> NewExecutable, st |-> NewState, mLinked |-> FALSE,
               ls |-> NoLinkingState],
              [present |-> FALSE])
OtherBuildBinary == [EmptyBinary EXCEPT !.commitHash = "otherBuild"]
OtherVersionBinary == [EmptyBinary EXCEPT !.majorVersion = 2, !.minorVersion = 0]

\* Names glBindAttribLocation and glTransformFeedbackVaryings are called with.
BindableAttributes == {"b"}
VaryingNameLists == {<<>>, <<"vColor">>}

Init ==
    /\ mAttachedShaders = [t \in ShaderTypes |-> NoShader]
    /\ mAttributeBindings = EmptyBindings
    /\ mFragmentOutputLocations = EmptyBindings
    /\ mFragmentOutputIndexes = EmptyBindings
    /\ mTransformFeedbackVaryingNames = <<>>
    /\ mSeparable = FALSE
    /\ mExecutable = NewExecutable
    /\ mState = NewState
    /\ mLinked = FALSE
    /\ mLinkingState = NoLinkingState
    /\ cache = <<>>
    /\ context \in {c \in Contexts : c.hasCache}
    /\ savedBinary = NoBinary
    /\ ret = Called("Program", "Continue")
    /\ refCount = EmptyBag
    /\ compiler = [present |-> FALSE]

\* The fragment output bindings of glBindFragDataLocation[Indexed]EXT
FragmentOutputBindings == <<mFragmentOutputLocations, mFragmentOutputIndexes>>
Config == <<mAttachedShaders, mAttributeBindings, FragmentOutputBindings,
            mTransformFeedbackVaryingNames, mSeparable>>
Object == <<mExecutable, mState, mLinked, mLinkingState>>

\* Program::attachShader
AttachShader(s) ==
    /\ ~mLinkingState.present
    /\ mAttachedShaders' = [mAttachedShaders EXCEPT ![s.type] = s]
    /\ refCount' = (IF IsAttached(mAttachedShaders, s.type)
                    THEN refCount (-) SetToBag({mAttachedShaders[s.type].id})
                    ELSE refCount) (+) SetToBag({s.id})
    /\ ret' = Called("attachShader", "Continue")
    /\ UNCHANGED <<mAttributeBindings, FragmentOutputBindings, mTransformFeedbackVaryingNames,
                   mSeparable, Object,
                   cache, context, compiler, savedBinary>>

\* Program::detachShader: a separable program keeps the shader
DetachShader(t) ==
    /\ ~mLinkingState.present
    /\ IsAttached(mAttachedShaders, t)
    /\ mAttachedShaders' = IF mSeparable THEN mAttachedShaders
                           ELSE [mAttachedShaders EXCEPT ![t] = NoShader]
    /\ refCount' = IF mSeparable THEN refCount
                   ELSE refCount (-) SetToBag({mAttachedShaders[t].id})
    /\ ret' = Called("detachShader", "Continue")
    /\ UNCHANGED <<mAttributeBindings, FragmentOutputBindings, mTransformFeedbackVaryingNames,
                   mSeparable, Object,
                   cache, context, compiler, savedBinary>>

\* Program::bindAttributeLocation
BindAttributeLocation(index, name) ==
    /\ ~mLinkingState.present
    /\ mAttributeBindings' = bindLocation(mAttributeBindings, index, name)
    /\ ret' = Called("bindAttributeLocation", "Continue")
    /\ UNCHANGED <<mAttachedShaders, FragmentOutputBindings, mTransformFeedbackVaryingNames,
                   mSeparable, Object,
                   cache, context, compiler, refCount, savedBinary>>

\* Program::setSeparable
SetSeparable(separable) ==
    /\ ~mLinkingState.present
    /\ mSeparable' = separable
    /\ ret' = Called("setSeparable", "Continue")
    /\ UNCHANGED <<mAttachedShaders, mAttributeBindings, FragmentOutputBindings,
                   mTransformFeedbackVaryingNames, Object, cache, context, compiler, refCount, savedBinary>>

\* Program::setTransformFeedbackVaryings
SetTransformFeedbackVaryings(varyings) ==
    /\ ~mLinkingState.present
    /\ mTransformFeedbackVaryingNames' = varyings
    /\ ret' = Called("setTransformFeedbackVaryings", "Continue")
    /\ UNCHANGED <<mAttachedShaders, mAttributeBindings, FragmentOutputBindings, mSeparable,
                   Object, cache, context, compiler, refCount,
                   savedBinary>>

\* What a call of link() leaves: the program, the cache and the call's record.
LinkReturns(r) ==
    /\ SetProg(r.p)
    /\ cache' = r.cache
    /\ ret' = Ret("link", "Continue", r.hit, r.steps, FALSE)

\* link() entered without regard to a link in flight.
LinkWhileLinking(eventReturned) ==
    /\ LinkReturns(link(Prog, context, mAttachedShaders, mAttributeBindings,
                        mTransformFeedbackVaryingNames, mSeparable, cache, eventReturned))
    /\ UNCHANGED <<Config, context, compiler, refCount, savedBinary>>

\* Program::link
Link(eventReturned) ==
    /\ ~mLinkingState.present
    /\ LinkReturns(link(Prog, context, mAttachedShaders, mAttributeBindings,
                        mTransformFeedbackVaryingNames, mSeparable, cache, eventReturned))
    /\ UNCHANGED <<Config, context, compiler, refCount, savedBinary>>

\* The backend's link or load task completes (LinkEvent::isLinking turns false).
BackendFinish ==
    /\ mLinkingState.present
    /\ mLinkingState.linkEvent = "running"
    /\ mLinkingState' = [mLinkingState EXCEPT !.linkEvent = "done"]
    /\ UNCHANGED <<Config, mExecutable, mState, mLinked, cache, context, compiler, refCount, savedBinary, ret>>

\* Program::resolveLink: resolveLinkImpl when a LinkingState exists
ResolveLink(result, putResult) ==
    /\ mLinkingState.present
    /\ LET r == resolveLinkImpl(Prog, context, mSeparable, cache, result, putResult)
       IN  /\ SetProg(r.p)
           /\ cache' = r.cache
           /\ ret' = Ret("resolveLink", result, mLinkingState.linkingFromBinary, {}, r.stored)
    /\ UNCHANGED <<Config, context, compiler, refCount, savedBinary>>

\* The binaries glProgramBinary can be called with.
Binaries ==
    {OtherBuildBinary, OtherVersionBinary}
    \cup (IF savedBinary.present THEN {savedBinary} ELSE {})

\* Program::loadBinary (glProgramBinary)
LoadBinary(binary, eventReturned) ==
    /\ ~mLinkingState.present
    /\ LET r == loadBinary(Prog, context, binary, eventReturned)
       IN  /\ SetProg(r.p)
           /\ ret' = Ret("loadBinary", r.result, FALSE,
                         IF r.loaded THEN {"mProgram->load"} ELSE {}, FALSE)
    /\ UNCHANGED <<Config, cache, context, compiler, refCount, savedBinary>>

\* Program::saveBinary (glGetProgramBinary, of a linked program)
SaveBinary ==
    /\ ~mLinkingState.present
    /\ mLinked
    /\ savedBinary' = serialize(Prog, context)
    /\ ret' = Called("saveBinary", "Continue")
    /\ UNCHANGED <<Config, Object, cache, context, compiler, refCount>>

\* Program::bindUniformBlock (glUniformBlockBinding on a linked program)
BindUniformBlock(uniformBlockIndex, uniformBlockBinding) ==
    /\ ~mLinkingState.present
    /\ mLinked
    /\ uniformBlockIndex < Len(mExecutable.mUniformBlocks)
    /\ SetProg(bindUniformBlock(Prog, uniformBlockIndex, uniformBlockBinding))
    /\ ret' = Called("bindUniformBlock", "Continue")
    /\ UNCHANGED <<Config, cache, context, compiler, refCount, savedBinary>>

\* Program::setUniform1iv (glUniform1iv on a linked program)
SetUniform1iv(location, v) ==
    /\ ~mLinkingState.present
    /\ mLinked
    /\ location < Len(mState.mUniformLocations)
    /\ SetProg(setUniform1iv(Prog, location, v))
    /\ ret' = Called("setUniform1iv", "Continue")
    /\ UNCHANGED <<Config, cache, context, compiler, refCount, savedBinary>>

\* std::string::size of the names of the shader catalogue
StringSize(name) ==
    CASE name \in {"a", "b", "u", "s", "t", "o"} -> 1
      [] name \in {"ac", "ob", "oc", "od"} -> 2
      [] name = "img" -> 3
      [] name = "color" -> 5
      [] name = "vColor" -> 6
      [] name = "gl_VertexID" -> 11
      [] OTHER -> 0

\* The loop of get{Input,Output}ResourceMaxNameSize over getResourceMaxNameSize
RECURSIVE getResourceMaxNameSize(_, _)
getResourceMaxNameSize(resources, max) ==
    IF resources = <<>> THEN max
    ELSE getResourceMaxNameSize(Tail(resources), Max(max, StringSize(Head(resources).name)))

\* GetVariableLocation over output variables (no output is an array)
GetVariableLocation(list, locationList, name) ==
    LET hits == {l \in 1..Len(locationList) :
                    /\ used(locationList[l])
                    /\ list[locationList[l].index + 1].name = name
                    /\ locationList[l].arrayIndex = 0}
    IN  IF hits = {} THEN -1 ELSE (CHOOSE l \in hits : \A m \in hits : l <= m) - 1

\* Program::getActiveAttribute
GetActiveAttribute(index) ==
    /\ ~mLinkingState.present
    /\ mLinked => index < Len(mExecutable.mProgramInputs)
    /\ ret' = Called("getActiveAttribute",
                     IF mLinked THEN mExecutable.mProgramInputs[index + 1].name ELSE "")
    /\ UNCHANGED <<Config, Object, cache, context, compiler, refCount, savedBinary>>

\* A count that leaves the built-in attributes out.
GetActiveAttributeCountUserDefined ==
    /\ ~mLinkingState.present
    /\ ret' = Called("getActiveAttributeCount",
                     ToString(IF mLinked
                              THEN Len(SelectSeq(mExecutable.mProgramInputs,
                                                 LAMBDA attrib : ~attrib.builtin))
                              ELSE 0))
    /\ UNCHANGED <<Config, Object, cache, context, compiler, refCount, savedBinary>>
\* Program::getActiveAttributeCount
GetActiveAttributeCount ==
    /\ ~mLinkingState.present
    /\ ret' = Called("getActiveAttributeCount",
                     ToString(IF mLinked THEN Len(mExecutable.mProgramInputs) ELSE 0))
    /\ UNCHANGED <<Config, Object, cache, context, compiler, refCount, savedBinary>>

\* Program::getFragDataLocation
GetFragDataLocation(name) ==
    /\ ~mLinkingState.present
    /\ LET primaryLocation == GetVariableLocation(mExecutable.mOutputVariables,
                                                  mExecutable.mOutputLocations, name)
       IN  ret' = Called("getFragDataLocation",
                         ToString(
                           IF primaryLocation # -1 THEN primaryLocation
                           ELSE GetVariableLocation(mExecutable.mOutputVariables,
                                                    mState.mSecondaryOutputLocations, name)))
    /\ UNCHANGED <<Config, Object, cache, context, compiler, refCount, savedBinary>>

\* Program::getInputResourceMaxNameSize: no assertion on mLinkingState
GetInputResourceMaxNameSize ==
    /\ ret' = Called("getInputResourceMaxNameSize",
                     ToString(getResourceMaxNameSize(mExecutable.mProgramInputs, 0)))
    /\ UNCHANGED <<Config, Object, cache, context, compiler, refCount, savedBinary>>

\* Program::getOutputResourceMaxNameSize: no assertion on mLinkingState
GetOutputResourceMaxNameSize ==
    /\ ret' = Called("getOutputResourceMaxNameSize",
                     ToString(getResourceMaxNameSize(mExecutable.mOutputVariables, 0)))
    /\ UNCHANGED <<Config, Object, cache, context, compiler, refCount, savedBinary>>

Next ==
    \/ \E s \in CompiledShaders : AttachShader(s)
    \/ \E index \in 0..1, name \in BindableAttributes : BindAttributeLocation(index, name)
    \/ \E separable \in BOOLEAN : SetSeparable(separable)
    \/ \E varyings \in VaryingNameLists : SetTransformFeedbackVaryings(varyings)
    \/ \E eventReturned \in BOOLEAN : Link(eventReturned)
    \/ BackendFinish
    \/ \E result \in {"Continue", "Stop"}, putResult \in {"Continue", "Stop"} :
           ResolveLink(result, putResult)
    \/ \E binary \in Binaries, eventReturned \in BOOLEAN : LoadBinary(binary, eventReturned)

\* The link state machine with the memory program cache.
Spec == Init /\ [][Next]_vars

\* A program used without a program cache whose binary the application
\* retrieves (glGetProgramBinary) and loads back (glProgramBinary).
InitBinary ==
    /\ mAttachedShaders = [t \in ShaderTypes |-> NoShader]
    /\ mAttributeBindings = EmptyBindings
    /\ mFragmentOutputLocations = EmptyBindings
    /\ mFragmentOutputIndexes = EmptyBindings
    /\ mTransformFeedbackVaryingNames = <<>>
    /\ mSeparable = FALSE
    /\ mExecutable = NewExecutable
    /\ mState = NewState
    /\ mLinked = FALSE
    /\ mLinkingState = NoLinkingState
    /\ cache = <<>>
    /\ context \in {c \in Contexts : ~c.hasCache}
    /\ savedBinary = NoBinary
    /\ ret = Called("Program", "Continue")
    /\ refCount = EmptyBag
    /\ compiler = [present |-> FALSE]

NextBinary ==
    \/ \E s \in CompiledShaders : AttachShader(s)
    \/ \E varyings \in VaryingNameLists : SetTransformFeedbackVaryings(varyings)
    \/ \E eventReturned \in BOOLEAN : Link(eventReturned)
    \/ \E result \in {"Continue", "Stop"}, putResult \in {"Continue", "Stop"} :
           ResolveLink(result, putResult)
    \/ SaveBinary
    \/ \E binary \in Binaries, eventReturned \in BOOLEAN : LoadBinary(binary, eventReturned)
    \/ \E i \in 0..1, binding \in 0..MaxBlockBinding : BindUniformBlock(i, binding)
    \/ \E location \in -1..Caps.maxUniformLocations, unit \in 0..MaxTextureUnit :
           SetUniform1iv(location, <<unit>>)
    \/ \E index \in 0..(Caps.maxVertexAttributes - 1) : GetActiveAttribute(index)
    \/ GetActiveAttributeCount
    \/ GetFragDataLocation("color")
    \/ GetInputResourceMaxNameSize
    \/ GetOutputResourceMaxNameSize

SpecBinary == InitBinary /\ [][NextBinary]_vars

\* A program whose shaders are attached and detached, compiled or not,
\* between links.
NextStages ==
    \/ \E s \in Shaders : AttachShader(s)
    \/ \E t \in ShaderTypes : DetachShader(t)
    \/ \E separable \in BOOLEAN : SetSeparable(separable)
    \/ \E eventReturned \in BOOLEAN : Link(eventReturned)
    \/ \E result \in {"Continue", "Stop"} : ResolveLink(result, "Continue")

SpecStages == InitBinary /\ [][NextStages]_vars

\* serialize(nullptr, ...): "nullptr context is supported when computing
\* binary length".
NullContext == [present |-> FALSE]

\* The calls Program::serialize makes through its context pointer: the client
\* version under `if (context)` (lines 4544-4553) and, when the program has
\* linked transform feedback varyings, the frontend features (lines 4626-4628;
\* the left operand of && is evaluated first).
serializeDereferences(p, ctx) ==
    (IF ctx.present THEN {"context->getClientVersion"} ELSE {})
    \cup (IF p.exe.mLinkedTransformFeedbackVaryings # <<>>
          THEN {"context->getFrontendFeatures"} ELSE {})

\* Program::serialize called by itself.  A call through a null context is
\* undefined: the build may crash there or read on and write the binary.
Serialize(withContext) ==
    LET ctx == IF withContext THEN context ELSE NullContext
    IN  /\ ~mLinkingState.present
        /\ mLinked
        /\ \E result \in IF ctx.present \/ serializeDereferences(Prog, ctx) = {}
                         THEN {"Continue"} ELSE {"Continue", "Crash"} :
              /\ savedBinary' = IF result = "Continue" THEN serialize(Prog, ctx)
                                ELSE savedBinary
              /\ ret' = Ret(IF ctx.present THEN "serialize" ELSE "serialize(nullptr)",
                            result, FALSE, serializeDereferences(Prog, ctx), FALSE)
        /\ UNCHANGED <<Config, Object, cache, context, compiler, refCount>>

\* A program linked with or without transform feedback varyings and then
\* serialized, with the context or without one.
NextSerialize ==
    \/ \E s \in CompiledShaders : AttachShader(s)
    \/ \E varyings \in VaryingNameLists : SetTransformFeedbackVaryings(varyings)
    \/ \E eventReturned \in BOOLEAN : Link(eventReturned)
    \/ \E result \in {"Continue", "Stop"} : ResolveLink(result, "Continue")
    \/ \E withContext \in BOOLEAN : Serialize(withContext)

SpecSerialize == InitBinary /\ [][NextSerialize]_vars

\* The programs whose fragment outputs are linked: a vertex shader and one
\* of the fragment shaders of OutputShaders, under the fragment output
\* bindings the application made for o[1] and ob.  A binding is made by
\* glBindFragDataLocationIndexedEXT(colorNumber, index, name), which calls
\* bindFragmentOutputLocation and bindFragmentOutputIndex with a colour number
\* below MAX_DRAW_BUFFERS for index 0 and below MAX_DUAL_SOURCE_DRAW_BUFFERS
\* for index 1; <<-1, -1>> stands for no call.
OutputPrograms ==
    LET FragDataBindings ==
            {<<-1, -1>>}
            \cup {<<colorNumber, 0>> : colorNumber \in 0..(Caps.maxDrawBuffers - 1)}
            \cup {<<colorNumber, 1>> : colorNumber \in 0..(Caps.maxDualSourceDrawBuffers - 1)}
        Bind(b, index, name) == IF index = -1 THEN b ELSE aliasedBindLocation(b, index, name)
        Bindings(call1, call2, which) ==
            Bind(Bind(EmptyBindings, call1[which], BindingName("o", 1)),
                 call2[which], BindingName("ob", kUnused))
    IN  {[shaders |-> [t \in ShaderTypes |-> IF t = "Vertex" THEN VS1
                                              ELSE IF t = "Fragment" THEN fs ELSE NoShader],
          attributeBindings |-> EmptyBindings,
          fragmentOutputLocations |-> Bindings(call1, call2, 1),
          fragmentOutputIndexes |-> Bindings(call1, call2, 2),
          webglCompatibility |-> FALSE, noVertexAttributeAliasing |-> FALSE] :
            fs \in OutputShaders, call1 \in FragDataBindings, call2 \in FragDataBindings}

\* Programs whose fragment outputs o and ob declare neither a location nor an
\* index and get their index from Program::bindFragmentOutputIndex(1, name)
\* alone: the location of the output named is then the linker's to choose,
\* unless Program::bindFragmentOutputLocation(location, "o") was called too.
IndexedOutputPrograms ==
    LET Unqualified(fs) ==
            /\ Len(fs.outputs) <= 2
            /\ \A i \in 1..Len(fs.outputs) :
                   fs.outputs[i].location = -1 /\ fs.outputs[i].index = -1
        Bind(b, index, name) == IF index = -1 THEN b ELSE aliasedBindLocation(b, index, name)
    IN  {[shaders |-> [t \in ShaderTypes |-> IF t = "Vertex" THEN VS1
                                              ELSE IF t = "Fragment" THEN fs ELSE NoShader],
          attributeBindings |-> EmptyBindings,
          fragmentOutputLocations |-> Bind(EmptyBindings, location, BindingName("o", kUnused)),
          fragmentOutputIndexes |-> Bind(EmptyBindings, 1, BindingName(name, kUnused)),
          webglCompatibility |-> FALSE, noVertexAttributeAliasing |-> FALSE] :
            fs \in {f \in OutputShaders : Unqualified(f)},
            location \in -1..(Caps.maxDrawBuffers - 1), name \in {"o", "ob"}}

\* The graphics programs whose interface blocks are linked.  The vertex
\* shader declares the uniform block B with the field f, with or without an
\* instance name, as an array or not.  The fragment shader declares a uniform
\* block named B or C, which differs from the vertex shader's block in any of
\* its instance name, array size, layout, binding and fields, and it may
\* declare a shader storage block S without an instance name.  No shader
\* declares the same field in two blocks without instance names: the compiler
\* rejects that.
BlockPrograms ==
    LET Field(name, type, precision, isRowMajorLayout) ==
            [name |-> name, type |-> type, precision |-> precision,
             isRowMajorLayout |-> isRowMajorLayout]
        f == Field("f", "mat4", "highp", FALSE)
        g == Field("g", "mat4", "highp", FALSE)
        FieldLists ==
            {<<f>>, <<g>>, <<f, g>>, <<Field("f", "mat3", "highp", FALSE)>>,
             <<Field("f", "mat4", "mediump", FALSE)>>, <<Field("f", "mat4", "highp", TRUE)>>}
        Instances == {<<"", 0>>, <<"i", 0>>, <<"i", 2>>}
        Block(name, instance, layout, binding, fields) ==
            [InterfaceBlock(name, instance[1], layout[1], binding, fields)
                EXCEPT !.arraySize = instance[2], !.active = layout[2]]
        VertexBlocks == {Block("B", instance, <<"shared", TRUE>>, 1, <<f>>) : instance \in Instances}
        FragmentBlocks ==
            {Block(name, instance, layout, binding, fields) :
                name \in {"B", "C"}, instance \in Instances,
                layout \in {<<"shared", TRUE>>, <<"std140", TRUE>>, <<"packed", TRUE>>,
                            <<"packed", FALSE>>},
                binding \in {1, 2}, fields \in FieldLists}
        StorageBlocks(block) ==
            {<<>>}
            \cup {<< Block("S", <<"", 0>>, <<"std430", TRUE>>, 0, fields) >> :
                     fields \in {fs \in {<<f>>, <<g>>} :
                                    \/ block.instanceName # ""
                                    \/ \A i \in 1..Len(block.fields) :
                                          block.fields[i].name # fs[1].name}}
        Programs(fb) ==
          {[shaders |-> [t \in ShaderTypes |->
                          IF t = "Vertex" THEN [VS1 EXCEPT !.id = "VSb", !.uniformBlocks = <<vb>>]
                          ELSE IF t = "Fragment"
                          THEN [FS1 EXCEPT !.id = "FSb", !.uniformBlocks = <<fb>>,
                                           !.shaderStorageBlocks = sb]
                          ELSE NoShader],
          attributeBindings |-> EmptyBindings,
          fragmentOutputLocations |-> EmptyBindings,
          fragmentOutputIndexes |-> EmptyBindings,
          webglCompatibility |-> webglCompatibility, noVertexAttributeAliasing |-> FALSE] :
            vb \in VertexBlocks, sb \in StorageBlocks(fb), webglCompatibility \in BOOLEAN}
    IN  UNION {Programs(fb) :
                 fb \in {b \in FragmentBlocks :
                           \/ b.fields = <<f>>
                           \/ (b.layout = "shared" /\ b.binding = 1 /\ b.arraySize = 0)}}

\* The programs the linker is run on: those of OutputPrograms, and the
\* programs whose attributes are linked, a vertex shader of AttributeShaders
\* with the fragment shader of its version, under the glBindAttribLocation
\* calls the application made for a and b, in a context with or without WebGL
\* compatibility or the limitation noVertexAttributeAliasing, and the compute
\* programs whose uniforms are linked, one for each shader of UniformShaders.
LinkerPrograms ==
    LET Bind(b, index, name) == IF index = -1 THEN b ELSE bindLocation(b, index, name)
        AttributePrograms ==
            {[shaders |-> [t \in ShaderTypes |->
                              IF t = "Vertex" THEN vs
                              ELSE IF t = "Fragment"
                              THEN (IF vs.version = 100 THEN FS100 ELSE FS1)
                              ELSE NoShader],
              attributeBindings |-> Bind(Bind(EmptyBindings, indexA, "a"), indexB, "b"),
              fragmentOutputLocations |-> EmptyBindings,
              fragmentOutputIndexes |-> EmptyBindings,
              webglCompatibility |-> strict[1], noVertexAttributeAliasing |-> strict[2]] :
                vs \in AttributeShaders, indexA \in {-1, 1},
                indexB \in -1..(Caps.maxVertexAttributes - 1),
                strict \in {<<FALSE, FALSE>>, <<TRUE, FALSE>>, <<FALSE, TRUE>>}}
        UniformPrograms ==
            {[shaders |-> [t \in ShaderTypes |-> IF t = "Compute" THEN cs ELSE NoShader],
              attributeBindings |-> EmptyBindings,
              fragmentOutputLocations |-> EmptyBindings,
              fragmentOutputIndexes |-> EmptyBindings,
              webglCompatibility |-> FALSE, noVertexAttributeAliasing |-> FALSE] :
                cs \in UniformShaders}
    IN  OutputPrograms \cup IndexedOutputPrograms \cup AttributePrograms
        \cup UniformPrograms \cup BlockPrograms

\* A program set up for linking: the pure steps of the resource linker are
\* checked on the programs of LinkerPrograms.
InitLinker ==
    /\ \E program \in LinkerPrograms :
          /\ mAttachedShaders = program.shaders
          /\ refCount = SetToBag({program.shaders[t].id : t \in ShaderTypes} \ {NoShader.id})
          /\ mAttributeBindings = program.attributeBindings
          /\ mFragmentOutputLocations = program.fragmentOutputLocations
          /\ mFragmentOutputIndexes = program.fragmentOutputIndexes
          /\ \E c \in Contexts :
                /\ ~c.hasCache /\ ~c.disableProgramCachingForTransformFeedback
                /\ context = [c EXCEPT
                                !.webglCompatibility = program.webglCompatibility,
                                !.noVertexAttributeAliasing =
                                    program.noVertexAttributeAliasing]
    /\ mTransformFeedbackVaryingNames = <<>>
    /\ mSeparable = FALSE
    /\ mExecutable = NewExecutable
    /\ mState = NewState
    /\ mLinked = FALSE
    /\ mLinkingState = NoLinkingState
    /\ cache = <<>>
    /\ savedBinary = NoBinary
    /\ ret = Called("Program", "Continue")
    /\ compiler = [present |-> FALSE]

NextLinker ==
    \/ \E eventReturned \in BOOLEAN : Link(eventReturned)
    \/ \E result \in {"Continue", "Stop"} : ResolveLink(result, "Continue")

SpecLinker == InitLinker /\ [][NextLinker]_vars

\* Compute programs with the sampler array s of two elements and the sampler
\* t, alone or an array of two, each with or without a binding qualifier
\* (the units of a binding lie within the texture units of the context).
SamplerPrograms ==
    LET t == {x \in (-1..MaxTextureUnit) \X (1..2) : x[1] + x[2] - 1 <= MaxTextureUnit}
    IN  {[CS1 EXCEPT !.id = "CSs",
                     !.uniforms = <<Uniform("s", "sampler", bindingS, 2),
                                    Uniform("t", "sampler", x[1], x[2])>>] :
            bindingS \in -1..(MaxTextureUnit - 1), x \in t}

InitSamplers ==
    /\ \E cs \in SamplerPrograms :
          /\ mAttachedShaders = [t \in ShaderTypes |-> IF t = "Compute" THEN cs ELSE NoShader]
          /\ refCount = SetToBag({cs.id})
    /\ mAttributeBindings = EmptyBindings
    /\ mFragmentOutputLocations = EmptyBindings
    /\ mFragmentOutputIndexes = EmptyBindings
    /\ mTransformFeedbackVaryingNames = <<>>
    /\ mSeparable = FALSE
    /\ mExecutable = NewExecutable
    /\ mState = NewState
    /\ mLinked = FALSE
    /\ mLinkingState = NoLinkingState
    /\ cache = <<>>
    /\ context \in {c \in Contexts : ~c.hasCache /\ ~c.disableProgramCachingForTransformFeedback}
    /\ savedBinary = NoBinary
    /\ ret = Called("Program", "Continue")
    /\ compiler = [present |-> FALSE]

\* glUniform1iv on the locations of a linked program, one or two values
NextSamplers ==
    \/ \E eventReturned \in BOOLEAN : Link(eventReturned)
    \/ \E result \in {"Continue", "Stop"} : ResolveLink(result, "Continue")
    \/ \E location \in -1..Caps.maxUniformLocations,
          v \in UNION {[1..n -> 0..MaxTextureUnit] : n \in 1..2} :
          SetUniform1iv(location, v)

SpecSamplers == InitSamplers /\ [][NextSamplers]_vars

-----------------------------------------------------------------------------
(* TranslatorVulkan: the passes of translateImpl that rewrite main().      *)

\* A statement of the AST: op is its operator (EOpAssign, EOpInitialize, a
\* declaration, an if, EOpKill or a bare symbol), lhs the variable it writes,
\* expr its expression in prefix form, symbols the variables the expression
\* refers to (its TIntermSymbol nodes), body the statements of its block.
Statement(op, lhs, expr, symbols, body) ==
    [op |-> op, lhs |-> lhs, expr |-> expr, symbols |-> symbols, body |-> body]

\* RunAtTheEndOfShader: the statement runs after everything main() held.
RunAtTheEndOfShader(root, codeToRun) == [root EXCEPT !.main = Append(@, codeToRun)]

\* ReplaceVariable: every reference to the variable in the sequence and in
\* its blocks refers to the replacement.
RECURSIVE ReplaceVariable(_, _, _)
ReplaceVariable(sequence, toBeReplaced, replacement) ==
    [i \in 1..Len(sequence) |->
        [sequence[i] EXCEPT
            !.symbols = IF toBeReplaced \in @ THEN (@ \ {toBeReplaced}) \cup {replacement}
                        ELSE @,
            !.body = ReplaceVariable(@, toBeReplaced, replacement)]]

\* RotateAndFlipBuiltinVariable.  insertSequence is "main" for
\* GetMainSequence(root) and "emulation" for the sequence of the line raster
\* emulation block, which is the body of the first statement of main().
RotateAndFlipBuiltinVariable(root, insertSequence, builtin, flippedVariableName, fragRotation) ==
    LET declared == [root EXCEPT !.globals = Append(@, flippedVariableName)]
        replaced == [declared EXCEPT
                        !.main = ReplaceVariable(@, builtin, flippedVariableName)]
        rotatedXY == IF fragRotation THEN <<"EOpMatrixTimesVector", "fragRotation", "xy">>
                     ELSE <<"xy">>
        plusPivot == <<"EOpAdd", "EOpMul", "EOpSub">> \o rotatedXY \o <<"pivot", "flipXY", "pivot">>
        assignment == Statement("EOpInitialize", flippedVariableName, <<"constructor">>,
                                {builtin}, <<>>)
        assignToY == Statement("EOpAssign", flippedVariableName \o ".xy", plusPivot,
                               {builtin, "pivot", "flipXY"}
                               \cup (IF fragRotation THEN {"fragRotation"} ELSE {}), <<>>)
    IN  IF insertSequence = "main"
        THEN [replaced EXCEPT !.main = <<assignment, assignToY>> \o @]
        ELSE [replaced EXCEPT !.main[1].body = <<assignment, assignToY>> \o @]

\* InsertFragCoordCorrection
InsertFragCoordCorrection(compileOptions, root, insertSequence) ==
    RotateAndFlipBuiltinVariable(root, insertSequence, "gl_FragCoord", "flippedFragCoord",
                                 "SH_ADD_PRE_ROTATION" \in compileOptions)

\* A test that rejects the fragment when it is off on either axis.
AddBresenhamEmulationFSEitherAxis(compileOptions, root, usesFragCoord) ==
    LET Declare(variable, expr, symbols) == Statement("declaration", variable, expr, symbols, <<>>)
        checkXY == <<"EOpLogicalOr", "EOpGreaterThan", "i.x", "kThreshold",
                     "EOpGreaterThan", "i.y", "kThreshold">>
        ifStatement == Statement("if", "", checkXY, {"i"},
                                 << Statement("EOpKill", "", <<>>, {}, <<>>) >>)
        ifEmulation == Statement("if", "", <<"lineRasterEmulation">>, {"lineRasterEmulation"},
                                 << Declare("f", <<"xy">>, {"gl_FragCoord"}), ifStatement >>)
        inserted == [root EXCEPT !.globals = Append(@, "ANGLEPosition"),
                                 !.main = <<ifEmulation>> \o @]
    IN  IF ~usesFragCoord THEN InsertFragCoordCorrection(compileOptions, inserted, "emulation")
        ELSE inserted
\* AddBresenhamEmulationFS
AddBresenhamEmulationFS(compileOptions, root, usesFragCoord) ==
    LET Declare(variable, expr, symbols) == Statement("declaration", variable, expr, symbols, <<>>)
        pDecl == Declare("p", <<"EOpAdd", "EOpMul", "EOpAdd", "EOpVectorTimesScalar",
                                "ANGLEPosition", "0.5", "0.5", "viewport.zw", "viewport.xy">>,
                         {"ANGLEPosition", "viewport"})
        dDecl == Declare("d", <<"EOpAdd", "EOpDFdx", "p", "EOpDFdy", "p">>, {"p"})
        fDecl == Declare("f", <<"xy">>, {"gl_FragCoord"})
        p_decl == Declare("p_", <<"yx">>, {"p"})
        d_decl == Declare("d_", <<"yx">>, {"d"})
        f_decl == Declare("f_", <<"yx">>, {"f"})
        iDecl == Declare("i", <<"EOpAbs", "EOpAdd", "EOpSub", "p", "f",
                                "EOpMul", "EOpDiv", "d", "d_", "EOpSub", "f_", "p_">>,
                         {"p", "f", "d", "d_", "f_", "p_"})
        checkXY == <<"EOpLogicalAnd", "EOpGreaterThan", "i.x", "kThreshold",
                     "EOpGreaterThan", "i.y", "kThreshold">>
        ifStatement == Statement("if", "", checkXY, {"i"},
                                 << Statement("EOpKill", "", <<>>, {}, <<>>) >>)
        ifEmulation == Statement("if", "", <<"lineRasterEmulation">>, {"lineRasterEmulation"},
                                 <<pDecl, dDecl, fDecl, p_decl, d_decl, f_decl, iDecl,
                                   ifStatement>>)
        inserted == [root EXCEPT !.globals = Append(@, "ANGLEPosition"),
                                 !.main = <<ifEmulation>> \o @]
    IN  IF ~usesFragCoord THEN InsertFragCoordCorrection(compileOptions, inserted, "emulation")
        ELSE inserted

\* A pre-rotation put in front of the last statement of main().
AppendPreRotationBeforeLast(root) ==
    [root EXCEPT !.main =
        SubSeq(@, 1, Len(@) - 1)
        \o << Statement("EOpAssign", "gl_Position.xy",
                         <<"EOpMatrixTimesVector", "preRotation", "xy">>,
                         {"gl_Position", "preRotation"}, <<>>),
               @[Len(@)] >>]
\* AppendPreRotation
AppendPreRotation(root) ==
    RunAtTheEndOfShader(root, Statement("EOpAssign", "gl_Position.xy",
                                        <<"EOpMatrixTimesVector", "preRotation", "xy">>,
                                        {"gl_Position", "preRotation"}, <<>>))

\* TranslatorVulkan::translateImpl on the AST of c, the passes that leave
\* main() as it is left out: the root it returns.
translateImpl(c) ==
    LET compileOptions == c.compileOptions
        \* the loop over mInputVaryings, which ends at the first gl_PointCoord
        \* or gl_FragCoord
        found == {i \in 1..Len(c.mInputVaryings) :
                     /\ c.mInputVaryings[i].builtin
                     /\ c.mInputVaryings[i].name \in {"gl_PointCoord", "gl_FragCoord"}}
        last == IF found = {} THEN Len(c.mInputVaryings) + 1
                ELSE CHOOSE i \in found : \A j \in found : i <= j
        usesPointCoord == found # {} /\ c.mInputVaryings[last].name = "gl_PointCoord"
        usesFragCoord == found # {} /\ c.mInputVaryings[last].name = "gl_FragCoord"
        usesSampleMaskIn == \E i \in 1..(last - 1) :
                               /\ i <= Len(c.mInputVaryings) /\ c.mInputVaryings[i].builtin
                               /\ c.mInputVaryings[i].name = "gl_SampleMaskIn"
        \* AppendTransformFeedbackOutputToMain
        xfb == IF c.shaderType = "Vertex"
               THEN RunAtTheEndOfShader(c.root, Statement("symbol", "", <<"@@ XFB-OUT @@">>,
                                                           {"@@ XFB-OUT @@"}, <<>>))
               ELSE c.root
        \* case gl::ShaderType::Fragment
        f1 == IF "SH_ADD_BRESENHAM_LINE_RASTER_EMULATION" \in compileOptions
              THEN AddBresenhamEmulationFS(compileOptions, xfb, usesFragCoord) ELSE xfb
        f2 == IF usesPointCoord
              THEN RotateAndFlipBuiltinVariable(f1, "main", "gl_PointCoord", "flippedPointCoord",
                                                "SH_ADD_PRE_ROTATION" \in compileOptions)
              ELSE f1
        f3 == IF usesFragCoord THEN InsertFragCoordCorrection(compileOptions, f2, "main") ELSE f2
        f4 == IF usesSampleMaskIn
              THEN [f3 EXCEPT !.main = ReplaceVariable(@, "gl_SampleMaskIn", "ANGLESampleMaskIn")]
              ELSE f3
        \* case gl::ShaderType::Vertex
        \* AddBresenhamEmulationVS: mainBody->appendStatement(ifEmulation)
        v1 == IF "SH_ADD_BRESENHAM_LINE_RASTER_EMULATION" \in compileOptions
              THEN [xfb EXCEPT
                      !.globals = Append(@, "ANGLEPosition"),
                      !.main = Append(@, Statement("if", "", <<"lineRasterEmulation">>,
                                                   {"lineRasterEmulation"},
                                                   << Statement("EOpAssign", "ANGLEPosition",
                                                                <<"clampedNDC">>,
                                                                {"gl_Position", "viewport"},
                                                                <<>>) >>))]
              ELSE xfb
        \* AddXfbEmulationSupport: a function before main()
        v2 == IF "SH_ADD_VULKAN_XFB_EMULATION_SUPPORT_CODE" \in compileOptions
              THEN [v1 EXCEPT !.globals = Append(@, "ANGLEGetXfbOffsets")] ELSE v1
        \* AppendVertexShaderDepthCorrectionToMain
        v3 == RunAtTheEndOfShader(v2, Statement("EOpAssign", "gl_Position.z",
                                                <<"EOpMul", "EOpAdd", "z", "w", "0.5">>,
                                                {"gl_Position"}, <<>>))
        v4 == IF "SH_ADD_PRE_ROTATION" \in compileOptions THEN AppendPreRotation(v3) ELSE v3
    IN  IF c.shaderType = "Fragment" THEN f4 ELSE v4

\* The value of a condition in prefix form under env, the values of its
\* variables: [value, rest], rest being the tokens after the condition.
RECURSIVE Evaluate(_, _)
Evaluate(expr, env) ==
    LET left == Evaluate(Tail(expr), env)
        right == Evaluate(left.rest, env)
    IN  CASE Head(expr) = "EOpLogicalAnd" ->
               [value |-> left.value /\ right.value, rest |-> right.rest]
          [] Head(expr) = "EOpLogicalOr" ->
               [value |-> left.value \/ right.value, rest |-> right.rest]
          [] Head(expr) = "EOpGreaterThan" ->
               [value |-> left.value > right.value, rest |-> right.rest]
          [] OTHER -> [value |-> env[Head(expr)], rest |-> Tail(expr)]

\* The shaders handed to the translator: a vertex shader whose main() writes
\* gl_Position, and fragment shaders whose main() reads each of its input
\* varyings, built-in (gl_FragCoord, gl_PointCoord, gl_SampleMaskIn) or not,
\* which mInputVaryings lists in the order of their first use.
InitTranslator ==
    /\ mAttachedShaders = [t \in ShaderTypes |-> NoShader]
    /\ mAttributeBindings = EmptyBindings
    /\ mFragmentOutputLocations = EmptyBindings
    /\ mFragmentOutputIndexes = EmptyBindings
    /\ mTransformFeedbackVaryingNames = <<>>
    /\ mSeparable = FALSE
    /\ mExecutable = NewExecutable
    /\ mState = NewState
    /\ mLinked = FALSE
    /\ mLinkingState = NoLinkingState
    /\ cache = <<>>
    /\ context \in {c \in Contexts : ~c.hasCache /\ ~c.disableProgramCachingForTransformFeedback}
    /\ savedBinary = NoBinary
    /\ ret = Called("Program", "Continue")
    /\ refCount = EmptyBag
    /\ LET Varying(name) == [name |-> name, builtin |-> name # "v"]
           Names == {"gl_FragCoord", "gl_PointCoord", "gl_SampleMaskIn", "v"}
           Lists == {<<>>} \cup {<<a>> : a \in Names}
                    \cup {<<a, b>> \in Names \X Names : a # b}
                    \cup {<<a, b, c>> \in Names \X Names \X Names : a # b /\ b # c /\ a # c}
           Main(names) == [i \in 1..Len(names) |->
                             Statement("EOpAssign", "color", <<names[i]>>, {names[i]}, <<>>)]
       IN  \E shaderType \in {"Vertex", "Fragment"}, names \in Lists,
              compileOptions \in SUBSET {"SH_ADD_BRESENHAM_LINE_RASTER_EMULATION",
                                         "SH_ADD_PRE_ROTATION",
                                         "SH_ADD_VULKAN_XFB_EMULATION_SUPPORT_CODE"} :
              /\ shaderType = "Vertex" =>
                    names = <<>> /\ "SH_ADD_VULKAN_XFB_EMULATION_SUPPORT_CODE" \in compileOptions
              /\ shaderType = "Fragment" =>
                    "SH_ADD_VULKAN_XFB_EMULATION_SUPPORT_CODE" \notin compileOptions
              /\ compiler =
                    [present |-> TRUE, shaderType |-> shaderType,
                     compileOptions |-> compileOptions,
                     mInputVaryings |-> [i \in 1..Len(names) |-> Varying(names[i])],
                     root |-> [globals |-> <<>>,
                               main |-> IF shaderType = "Vertex"
                                        THEN << Statement("EOpAssign", "gl_Position",
                                                          <<"position">>, {"position"}, <<>>) >>
                                        ELSE Main(names)],
                     translated |-> FALSE,
                     fragment |-> [drawn |-> FALSE]]

\* TranslatorVulkan::translate
Translate ==
    /\ compiler.present /\ ~compiler.translated
    /\ compiler' = [compiler EXCEPT !.root = translateImpl(compiler), !.translated = TRUE]
    /\ ret' = Called("translate", "Continue")
    /\ UNCHANGED <<Config, Object, cache, context, refCount, savedBinary>>

\* A fragment of a line runs the line raster emulation the translator put in
\* main().  p is the position of the line at the fragment, d its derivative
\* and f the coordinate of the fragment, in units of 1/20000 of a pixel, in
\* which kThreshold = 0.5 + kEpsilon is 10002; i is
\* abs(p - f + (d / d_) * (f_ - p_)).
RunLineRasterEmulation(lineRasterEmulation, p, d) ==
    /\ compiler.present /\ compiler.translated
    /\ compiler.shaderType = "Fragment"
    /\ "SH_ADD_BRESENHAM_LINE_RASTER_EMULATION" \in compiler.compileOptions
    /\ LET f == <<10000, 10000>>
           Abs(x) == IF x < 0 THEN -x ELSE x
           i == <<Abs(p[1] - f[1] + (d[1] * (f[2] - p[2])) \div d[2]),
                  Abs(p[2] - f[2] + (d[2] * (f[1] - p[1])) \div d[1])>>
           env == [name \in {"i.x", "i.y", "kThreshold"} |->
                     IF name = "i.x" THEN i[1] ELSE IF name = "i.y" THEN i[2] ELSE 10002]
           main == compiler.root.main
           ifEmulation == main[CHOOSE s \in 1..Len(main) :
                                  main[s].op = "if" /\ main[s].expr = <<"lineRasterEmulation">>]
           ifStatement == ifEmulation.body[Len(ifEmulation.body)]
       IN  compiler' = [compiler EXCEPT
                          !.fragment = [drawn |-> TRUE,
                                        lineRasterEmulation |-> lineRasterEmulation,
                                        p |-> p, d |-> d, f |-> f,
                                        discarded |-> /\ lineRasterEmulation
                                                      /\ Evaluate(ifStatement.expr, env).value]]
    /\ ret' = Called("main", "Continue")
    /\ UNCHANGED <<Config, Object, cache, context, refCount, savedBinary>>

NextTranslator ==
    \/ Translate
    \/ \E lineRasterEmulation \in BOOLEAN,
          p \in {-2000, 6000, 10000, 20004} \X {6000, 10000, 22000},
          d \in {<<1, 1>>, <<2, 1>>, <<1, 2>>, <<-1, 1>>} :
          RunLineRasterEmulation(lineRasterEmulation, p, d)

SpecTranslator == InitTranslator /\ [][NextTranslator]_vars

-----------------------------------------------------------------------------
(* The set-up of a program before it is linked: shaders attached and       *)
(* detached, fragment outputs bound, and the queries of the attachments.   *)

\* The names glBindFragDataLocationEXT is called with for the output array o
\* and the output ob, and the colour numbers it is called with.
FragDataNames == {BindingName("o", kUnused), BindingName("o", 0), BindingName("o", 1),
                  BindingName("ob", kUnused)}
FragDataLocations == 0..(Caps.maxDrawBuffers - 1)

\* Program::bindFragmentOutputLocation: no assertion on mLinkingState
BindFragmentOutputLocation(index, name) ==
    /\ mFragmentOutputLocations' = aliasedBindLocation(mFragmentOutputLocations, index, name)
    /\ ret' = Called("bindFragmentOutputLocation", "Continue")
    /\ UNCHANGED <<mAttachedShaders, mAttributeBindings, mFragmentOutputIndexes,
                   mTransformFeedbackVaryingNames, mSeparable, Object,
                   cache, context, compiler, refCount, savedBinary>>

\* Program::getAttachedShadersCount
getAttachedShadersCount(att) ==
    Cardinality({i \in 1..Len(AllShaderTypes) : IsAttached(att, AllShaderTypes[i])})

\* Program::getAttachedShaders: the handles written to shaders[0..total)
getAttachedShaders(att, maxCount) ==
    LET handles == [i \in 1..Len(AllShaderTypes) |-> att[AllShaderTypes[i]].id]
        attached == SelectSeq(handles, LAMBDA id : id # NoShader.id)
    IN  SubSeq(attached, 1, IF Len(attached) < maxCount THEN Len(attached) ELSE maxCount)

GetAttachedShadersCount ==
    /\ ~mLinkingState.present
    /\ ret' = Called("getAttachedShadersCount",
                     ToString(getAttachedShadersCount(mAttachedShaders)))
    /\ UNCHANGED <<Config, Object, cache, context, compiler, refCount, savedBinary>>

\* the call returns *count; the handles are read off getAttachedShaders
GetAttachedShaders(maxCount) ==
    /\ ~mLinkingState.present
    /\ ret' = Called("getAttachedShaders",
                     ToString(Len(getAttachedShaders(mAttachedShaders, maxCount))))
    /\ UNCHANGED <<Config, Object, cache, context, compiler, refCount, savedBinary>>

NextSetup ==
    \/ \E s \in CompiledShaders : AttachShader(s)
    \/ \E t \in ShaderTypes : DetachShader(t)
    \/ \E separable \in BOOLEAN : SetSeparable(separable)
    \/ \E index \in FragDataLocations, name \in FragDataNames :
          BindFragmentOutputLocation(index, name)
    \/ GetAttachedShadersCount
    \/ \E maxCount \in 0..Len(AllShaderTypes) : GetAttachedShaders(maxCount)

SpecSetup == InitBinary /\ [][NextSetup]_vars

-----------------------------------------------------------------------------
(* The info log (class InfoLog).  A message is the sequence of its pieces: *)
(* std::string::find and erase work on pieces as they do on characters.    *)

\* const char *const g_fakepath = "C:\\fakepath";
g_fakepath == <<"C:\\", "fakepath">>

\* The longest message appended and the number of messages a log takes.
MaxMessageLength == 4
MaxLogLength == 1

\* The messages of the D3D compiler: with and without the fake path.
Messages ==
    UNION {[1..n -> {"C:\\", "fakepath", "error"}] : n \in 0..MaxMessageLength}

\* std::string::find: the first position (from 1) str occurs at in msg, 0 for npos
find(msg, str) ==
    LET occurrences == {i \in 1..(Len(msg) - Len(str) + 1) :
                           SubSeq(msg, i, i + Len(str) - 1) = str}
    IN  IF occurrences = {} THEN 0
        ELSE CHOOSE i \in occurrences : \A j \in occurrences : i <= j

\* The do-while loop of appendSanitized: msg once every occurrence is erased
RECURSIVE EraseFakePath(_)
EraseFakePath(msg) ==
    LET found == find(msg, g_fakepath)
    IN  IF found # 0
        THEN EraseFakePath(SubSeq(msg, 1, found - 1)
                           \o SubSeq(msg, found + Len(g_fakepath), Len(msg)))
        ELSE msg

\* InfoLog::appendSanitized: msg is sanitized, message is streamed
appendSanitized(infoLog, message) ==
    LET msg == EraseFakePath(message)
    IN  Append(infoLog, message)

AppendSanitized(message) ==
    /\ Len(mExecutable.infoLog) < MaxLogLength
    /\ mExecutable' = [mExecutable EXCEPT !.infoLog = appendSanitized(@, message)]
    /\ ret' = Called("appendSanitized", "Continue")
    /\ UNCHANGED <<Config, mState, mLinked, mLinkingState, cache, context, compiler,
                   refCount, savedBinary>>

\* InfoLog::reset
InfoLogReset ==
    /\ mExecutable' = [mExecutable EXCEPT !.infoLog = <<>>]
    /\ ret' = Called("reset", "Continue")
    /\ UNCHANGED <<Config, mState, mLinked, mLinkingState, cache, context, compiler,
                   refCount, savedBinary>>

NextInfoLog ==
    \/ \E message \in Messages : AppendSanitized(message)
    \/ InfoLogReset

SpecInfoLog == InitBinary /\ [][NextInfoLog]_vars

-----------------------------------------------------------------------------
(* Steps and observations the properties below are written over.           *)

LinkStep == \E eventReturned \in BOOLEAN : Link(eventReturned)
LoadBinaryStep == \E binary \in Binaries, eventReturned \in BOOLEAN :
                      LoadBinary(binary, eventReturned)
ResolveLinkStep == \E result \in {"Continue", "Stop"}, putResult \in {"Continue", "Stop"} :
                       ResolveLink(result, putResult)

\* A link() that returns without a LinkingState gave up at one of its steps.
LinkFails == LinkStep /\ ~mLinkingState'.present

\* The resource tables queries and draws read.
ResourceTables ==
    [mProgramInputs |-> mExecutable.mProgramInputs,
     mUniforms |-> mExecutable.mUniforms,
     mUniformLocations |-> mState.mUniformLocations,
     mUniformBlocks |-> mExecutable.mUniformBlocks,
     mAtomicCounterBuffers |-> mExecutable.mAtomicCounterBuffers,
     mOutputVariables |-> mExecutable.mOutputVariables,
     mOutputLocations |-> mExecutable.mOutputLocations,
     mSamplerBindings |-> mExecutable.mSamplerBindings,
     mComputeImageBindings |-> mExecutable.mComputeImageBindings,
     mGraphicsImageBindings |-> mExecutable.mGraphicsImageBindings]

\* The steps of the full pipeline of a graphics and of a compute program.
GraphicsPipeline ==
    {"linkAttributes", "linkVaryings", "linkUniforms", "linkInterfaceBlocks",
     "LinkValidateProgramGlobalNames", "linkOutputVariables", "linkMergedVaryings"}
ComputePipeline == {"linkUniforms", "linkInterfaceBlocks"}
ResourceLinkingSteps == GraphicsPipeline \cup ComputePipeline \cup {"unlink", "mProgram->link"}

-----------------------------------------------------------------------------
(* C1 *)

\* C1: a link() that fails on a program that is linked, with the tables of
\* its successful link in place, writes a diagnostic to the info log and
\* leaves the resource tables of the executable as they were before the call.
C1_FailedLinkKeepsTables ==
    [][(LinkFails /\ mLinked /\ mExecutable.mSamplerBindings # <<>>)
         => (mExecutable'.infoLog # <<>> /\ ResourceTables' = ResourceTables)]_vars

-----------------------------------------------------------------------------
(* C2 *)

\* C2: loadBinary of a binary of another build or another ES version returns
\* Incomplete at once: the backend is not asked to load it and no link is
\* started from it.
C2_MismatchedBinaryRejected ==
    [][\A binary \in {OtherBuildBinary, OtherVersionBinary}, eventReturned \in BOOLEAN :
          LoadBinary(binary, eventReturned)
            => /\ ret'.result = "Incomplete"
               /\ "mProgram->load" \notin ret'.steps
               /\ ~mLinkingState'.present]_vars

-----------------------------------------------------------------------------
(* C3 *)

\* C3 (as the code has it): a link() that hits the program cache runs only
\* the attached-shader validation and the cache lookup, and returns with the
\* backend's load of the binary in flight: a LinkingState marked
\* linkingFromBinary exists and the program is not linked yet.  resolveLink
\* then makes the program linked exactly when the backend's load succeeded,
\* without touching the loaded tables or the cache.
C3_CacheHitLoadsThenResolves ==
    [][/\ (LinkStep /\ ret'.hit)
            => /\ ret'.steps = {"linkValidateShaders", "getProgram"}
               /\ ret'.steps \cap ResourceLinkingSteps = {}
               /\ mLinkingState'.present /\ mLinkingState'.linkingFromBinary
               /\ ~mLinked'
       /\ (ResolveLinkStep /\ mLinkingState.linkingFromBinary)
            => /\ mLinked' = (ret'.result = "Continue")
               /\ ~mLinkingState'.present
               /\ ResourceTables' = ResourceTables
               /\ cache' = cache]_vars

\* C3 witness: a cache hit was resolved and the program is linked.
C3_Witness ==
    /\ ret.op = "resolveLink" /\ ret.hit /\ ret.result = "Continue"
    /\ mLinked /\ mExecutable.mUniforms # <<>>

\* C3 as stated: the program is linked, with no link in progress, when a
\* link() that hit the cache returns.
C3_CacheHitIsLinkedOnReturn ==
    [][(LinkStep /\ ret'.hit) => (mLinked' /\ ~mLinkingState'.present)]_vars

-----------------------------------------------------------------------------
(* C4 *)

\* Whether resolveLink stores the program it resolved.
StoresProgram(result, putResult) ==
    /\ result = "Continue"
    /\ context.hasCache /\ ~mSeparable
    /\ (mExecutable.mLinkedTransformFeedbackVaryings = <<>>
        \/ ~context.disableProgramCachingForTransformFeedback)
    /\ putResult = "Continue"

\* C4 (as the code has it): a link() that does not hit the cache and gets
\* through validation runs the pipeline of its kind of program up to the
\* first failing step, all of it when it hands the program to the backend.
\* resolveLink of such a link stores the serialized program under the hash
\* of that link exactly when the link succeeded, the program is not
\* separable, a cache exists, the program has no linked transform feedback
\* varyings or caching them is not disabled, and putProgram succeeds;
\* otherwise the cache is left as it was.
C4_MissLinksFullyAndStoresWhenCacheable ==
    [][/\ (LinkStep /\ ~ret'.hit /\ mLinkingState'.present)
            => /\ ~mLinkingState'.linkingFromBinary
               /\ {"unlink", "mProgram->link"} \subseteq ret'.steps
               /\ (IF IsAttached(mAttachedShaders, "Compute") THEN ComputePipeline
                   ELSE GraphicsPipeline) \subseteq ret'.steps
               /\ mLinkingState'.programHash =
                     (IF mSeparable THEN NoHash
                      ELSE ComputeHash(context, mAttachedShaders, mAttributeBindings,
                                       mTransformFeedbackVaryingNames))
       /\ \A result \in {"Continue", "Stop"}, putResult \in {"Continue", "Stop"} :
            (ResolveLink(result, putResult) /\ ~mLinkingState.linkingFromBinary)
              => IF StoresProgram(result, putResult)
                 THEN /\ ret'.stored
                      /\ CacheHas(cache', mLinkingState.programHash)
                      /\ CacheGet(cache', mLinkingState.programHash)
                           = serialize(Prog', context)
                 ELSE ~ret'.stored /\ cache' = cache]_vars

\* C4 witness: a full link was resolved and its binary is in the cache.
C4_Witness ==
    /\ ret.op = "resolveLink" /\ ~ret.hit /\ ret.stored
    /\ cache # <<>> /\ cache[Len(cache)].value = serialize(Prog, context)

\* C4 as stated: when resolveLink returns from a successful link that missed
\* the cache, the serialized program is in the cache under its hash (taking
\* putProgram itself to succeed).
C4_SuccessfulMissIsStored ==
    [][(ResolveLink("Continue", "Continue") /\ ~mLinkingState.linkingFromBinary)
         => /\ CacheHas(cache', mLinkingState.programHash)
            /\ CacheGet(cache', mLinkingState.programHash)
                 = serialize(Prog', context)]_vars

-----------------------------------------------------------------------------
(* C6 *)

-----------------------------------------------------------------------------
(* C7 *)

\* C7: a LinkingState comes into being only in a link() or loadBinary() that
\* handed work to the backend, goes away only in resolveLink, and is gone
\* when resolveLink returns, whether the link succeeded or failed.
C7_LinkingStateLifetime ==
    [][/\ ResolveLinkStep => ~mLinkingState'.present
       /\ (~mLinkingState.present /\ mLinkingState'.present)
            => /\ LinkStep \/ LoadBinaryStep
               /\ mLinkingState'.linkEvent = "running"
               /\ {"mProgram->link", "mProgram->load", "getProgram"} \cap ret'.steps # {}
       /\ (mLinkingState.present /\ ~mLinkingState'.present) => ResolveLinkStep]_vars

\* C7 witness: resolveLink returned from a failed link and no LinkingState
\* is left.
C7_Witness ==
    /\ ret.op = "resolveLink" /\ ret.result = "Stop"
    /\ ~mLinkingState.present /\ ~mLinked

-----------------------------------------------------------------------------
(* C10 *)

\* The four uniform ranges split the uniform list in order, end to end.
UniformRangesPartition ==
    /\ mExecutable.mDefaultUniformRange.low = 0
    /\ mExecutable.mDefaultUniformRange.high = mExecutable.mSamplerUniformRange.low
    /\ mExecutable.mSamplerUniformRange.high = mExecutable.mImageUniformRange.low
    /\ mExecutable.mImageUniformRange.high = mState.mAtomicCounterUniformRange.low
    /\ mState.mAtomicCounterUniformRange.high = Len(mExecutable.mUniforms)
    /\ mExecutable.mSamplerUniformRange.low <= mExecutable.mSamplerUniformRange.high
    /\ mExecutable.mImageUniformRange.low <= mExecutable.mImageUniformRange.high
    /\ mState.mAtomicCounterUniformRange.low <= mState.mAtomicCounterUniformRange.high

\* C10: after every link(), whatever its outcome, the default, sampler,
\* image and atomic counter ranges split the current uniform list in this
\* order, each ending where the next begins, the last at the uniform count.
C10_RangesPartitionAfterLink ==
    [][LinkStep => UniformRangesPartition']_vars

-----------------------------------------------------------------------------
(* C5 *)

BindUniformBlockStep ==
    \E i \in 0..1, binding \in 0..MaxBlockBinding : BindUniformBlock(i, binding)
SetUniform1ivStep ==
    \E location \in -1..Caps.maxUniformLocations, unit \in 0..MaxTextureUnit :
        SetUniform1iv(location, <<unit>>)

\* The binding of every uniform block, the bound units of every sampler.
BlockBindings ==
    [i \in 1..Len(mExecutable.mUniformBlocks) |-> mExecutable.mUniformBlocks[i].binding]
BoundTextureUnits ==
    [b \in 1..Len(mExecutable.mSamplerBindings) |->
        mExecutable.mSamplerBindings[b].boundTextureUnits]

\* The resource tables without the block bindings and the bound texture
\* units, with the uniform ranges.
LinkedTables ==
    [ResourceTables EXCEPT
       !.mUniformBlocks = [i \in 1..Len(@) |-> @[i].name],
       !.mSamplerBindings = [b \in 1..Len(@) |->
                                <<@[b].textureType, Len(@[b].boundTextureUnits)>>]]
LinkedRanges ==
    <<mExecutable.mDefaultUniformRange, mExecutable.mSamplerUniformRange,
      mExecutable.mImageUniformRange, mState.mAtomicCounterUniformRange,
      mState.mSecondaryOutputLocations, mState.mActiveOutputVariables>>

\* mActiveUniformBlockBindings has the bit of exactly the blocks bound to a
\* binding point other than 0.
BlockBindingBitsMatch ==
    mState.mActiveUniformBlockBindings
      = {i \in 0..(Len(mExecutable.mUniformBlocks) - 1) : BlockBindings[i + 1] # 0}

\* The tables of a resolved link are all there: the ranges split the uniform
\* list, every sampler and image uniform has its binding, every used
\* location names a uniform, every block its binding bit.
TablesPopulated ==
    /\ UniformRangesPartition
    /\ Len(mExecutable.mSamplerBindings)
         = mExecutable.mSamplerUniformRange.high - mExecutable.mSamplerUniformRange.low
    /\ Len(getImageBindings(mExecutable))
         = mExecutable.mImageUniformRange.high - mExecutable.mImageUniformRange.low
    /\ \A l \in 1..Len(mState.mUniformLocations) :
          used(mState.mUniformLocations[l])
            => mState.mUniformLocations[l].index < Len(mExecutable.mUniforms)
    /\ BlockBindingBitsMatch

-----------------------------------------------------------------------------
(* C8 *)

\* An accessor of linked state runs.
AccessorStep ==
    \/ \E index \in 0..1 : GetActiveAttribute(index)
    \/ GetFragDataLocation("color")
    \/ GetInputResourceMaxNameSize
    \/ GetOutputResourceMaxNameSize

\* C8: no accessor of linked state runs between link() and resolveLink:
\* each of them requires that no LinkingState exists.
C8_AccessorsAssertNotLinking ==
    [][(AccessorStep /\ ret.op = "link") => ~mLinkingState.present]_vars

-----------------------------------------------------------------------------
(* C9 *)

\* What loadBinary reads back from the binary saveBinary writes of the
\* program as it is.
RoundTrip == deserialize(unlink(Prog), context, serialize(Prog, context))

\* A linked program whose binary this context loads.
Loadable ==
    /\ mLinked /\ ~mLinkingState.present
    /\ (mExecutable.mLinkedTransformFeedbackVaryings = <<>>
        \/ ~context.disableProgramCachingForTransformFeedback)

\* The unit the sampler uniform of a binding has after a load: its binding
\* qualifier counted up over its elements, 0 without one.
QualifierUnits(exe, b) ==
    LET index == exe.mSamplerUniformRange.low + b - 1
        n == Len(exe.mSamplerBindings[b].boundTextureUnits)
    IN  IF index < Len(exe.mUniforms) /\ exe.mUniforms[index + 1].binding # -1
        THEN [e \in 1..n |-> exe.mUniforms[index + 1].binding + e - 1]
        ELSE [e \in 1..n |-> 0]

-----------------------------------------------------------------------------
(* Fragment outputs.                                                       *)

\* A link() that returned with a LinkingState ran all its steps with success.
LinkSucceeded == ret.op = "link" /\ mLinkingState.present

\* The location table of the primary (FALSE) or the secondary (TRUE) outputs.
OutputTable(secondary) ==
    IF secondary THEN mState.mSecondaryOutputLocations ELSE mExecutable.mOutputLocations

\* <<i, e>>: element e of the i-th output of the attached fragment shader.
FragmentOutputs == Attached(mAttachedShaders, "Fragment").outputs
OutputElements ==
    UNION {{<<i, e>> : e \in 0..(FragmentOutputs[i].count - 1)} :
             i \in {j \in 1..Len(FragmentOutputs) : ~FragmentOutputs[j].builtin}}

\* The slots <<secondary, location>> whose entry is element x.
SlotsOf(x) ==
    UNION {{<<secondary, l - 1>> :
              l \in {k \in 1..Len(OutputTable(secondary)) :
                       OutputTable(secondary)[k] = VariableLocation(x[2], x[1] - 1)}} :
           secondary \in BOOLEAN}

\* The slot element x is asked to be at: the location bound to "name[e]", or
\* else element e counted from the location declared in the shader or bound
\* to the name; <<FALSE, -1>> when the linker is free to choose.
RequestedSlot(x) ==
    LET outputVariable == FragmentOutputs[x[1]]
        element == BindingName(outputVariable.name, x[2])
        fixedLocation == getOutputLocationForLink(outputVariable, mFragmentOutputLocations)
    IN  IF x[2] >= 1 /\ element \in DOMAIN mFragmentOutputLocations
        THEN <<aliasedGetBindingByName(mFragmentOutputIndexes, element) = 1,
               mFragmentOutputLocations[element].location>>
        ELSE IF fixedLocation # -1
        THEN <<isOutputSecondaryForLink(outputVariable, mFragmentOutputIndexes),
               fixedLocation + x[2]>>
        ELSE <<FALSE, -1>>

\* Two outputs are asked to be at the same location of the same table.
OutputsCollide ==
    \E x, y \in OutputElements :
        x # y /\ RequestedSlot(x)[2] # -1 /\ RequestedSlot(x) = RequestedSlot(y)

\* C11: after a successful link every element of every fragment output holds
\* exactly one location of the two tables, so that no location is claimed
\* twice, and a link of outputs asked to be at one location fails.
C11_OneOutputPerLocation ==
    /\ LinkSucceeded => \A x \in OutputElements : Cardinality(SlotsOf(x)) = 1
    /\ (ret.op = "link" /\ OutputsCollide) => ~mLinkingState.present

\* The ceiling of fragment output locations: MAX_DUAL_SOURCE_DRAW_BUFFERS_EXT
\* if there is even one output with index one, MAX_DRAW_BUFFERS otherwise.
OutputCeiling ==
    IF mState.mSecondaryOutputLocations # <<>> THEN Caps.maxDualSourceDrawBuffers
    ELSE Caps.maxDrawBuffers

\* Some element of an output holds a location at or above the ceiling.
UsedAboveCeiling ==
    \E secondary \in BOOLEAN :
        \E l \in 1..Len(OutputTable(secondary)) :
            used(OutputTable(secondary)[l]) /\ l - 1 >= OutputCeiling

\* link() gave up in the placement of the fragment outputs.
PlacementFailed ==
    /\ ret.op = "link" /\ ~mLinkingState.present
    /\ mExecutable.infoLog # <<>>
    /\ mExecutable.infoLog[Len(mExecutable.infoLog)]
         = "Could not fit output variable into available locations"

\* C12: the placement of the fragment outputs fails the link exactly when an
\* element of an output holds a location at or above the ceiling.
C12_FailsExactlyAboveCeiling ==
    /\ LinkSucceeded => ~UsedAboveCeiling
    /\ PlacementFailed => UsedAboveCeiling

-----------------------------------------------------------------------------
(* Attributes.                                                             *)

VertexShaderVersion == Attached(mAttachedShaders, "Vertex").version

\* Strict mode: a GLSL ES 3.00 vertex shader, a WebGL context, or a backend
\* that cannot alias attributes.
StrictMode ==
    \/ VertexShaderVersion >= 300
    \/ context.webglCompatibility
    \/ context.noVertexAttributeAliasing

\* The attributes of the vertex shader that take part in the link: GLSL ES
\* 1.00 leaves out the attributes that are not active.
LinkedAttributes ==
    LET attributes == Attached(mAttachedShaders, "Vertex").attributes
    IN  IF VertexShaderVersion >= 300 THEN attributes
        ELSE SelectSeq(attributes, LAMBDA attribute : attribute.active)

\* The registers an attribute is put on by its layout(location) or else by
\* glBindAttribLocation; none when the linker is free to choose.
RequestedRegisters(attribute) ==
    LET location == IF attribute.location # -1 THEN attribute.location
                    ELSE IF attribute.name \in DOMAIN mAttributeBindings
                    THEN mAttributeBindings[attribute.name] ELSE -1
    IN  IF location = -1 THEN {}
        ELSE location..(location + (attribute.components + 3) \div 4 - 1)

\* Two different attributes are put on the same register, each on registers
\* that exist.
AttributesAliased ==
    /\ \A i \in 1..Len(LinkedAttributes) :
          RequestedRegisters(LinkedAttributes[i]) \subseteq 0..(Caps.maxVertexAttributes - 1)
    /\ \E i, j \in 1..Len(LinkedAttributes) :
          i # j /\ RequestedRegisters(LinkedAttributes[i])
                     \cap RequestedRegisters(LinkedAttributes[j]) # {}

\* The diagnostics that name two attributes put on one register and the register.
AliasingDiagnostics ==
    {"Attribute '" \o LinkedAttributes[i].name \o "' aliases attribute '"
       \o LinkedAttributes[j].name \o "' at location " \o ToString(l) :
         <<i, j, l>> \in
            {x \in (1..Len(LinkedAttributes)) \X (1..Len(LinkedAttributes))
                     \X (0..(Caps.maxVertexAttributes - 1)) :
                /\ x[1] # x[2]
                /\ x[3] \in RequestedRegisters(LinkedAttributes[x[1]])
                              \cap RequestedRegisters(LinkedAttributes[x[2]])}}

LinkFailed == ret.op = "link" /\ ~mLinkingState.present
LastMessage == mExecutable.infoLog[Len(mExecutable.infoLog)]

\* C13: a link of two different attributes put on the same register fails in
\* strict mode, with a diagnostic that names both attributes and the
\* register, and succeeds outside strict mode.
C13_AliasingFailsInStrictMode ==
    (ret.op = "link" /\ AttributesAliased) =>
        IF StrictMode
        THEN LinkFailed /\ mExecutable.infoLog # <<>> /\ LastMessage \in AliasingDiagnostics
        ELSE LinkSucceeded

\* A link with aliased attributes failed in a WebGL context with a GLSL ES 1.00 shader.
C13_Witness ==
    /\ ret.op = "link" /\ AttributesAliased /\ StrictMode /\ VertexShaderVersion = 100
    /\ LinkFailed

\* A link with aliased attributes outside strict mode succeeded.
AliasedLegacyLinked == ret.op = "link" /\ AttributesAliased /\ ~StrictMode /\ LinkSucceeded

\* The registers an attribute of the linked program occupies: four
\* components to a register, from its location on.
OccupiedRegisters(attribute) ==
    attribute.location..(attribute.location + (attribute.components + 3) \div 4 - 1)

\* No two attributes are put on a common register by layout(location) or
\* glBindAttribLocation.
NoExplicitCollision ==
    \A i, j \in 1..Len(LinkedAttributes) :
        i # j => RequestedRegisters(LinkedAttributes[i])
                   \cap RequestedRegisters(LinkedAttributes[j]) = {}

BuiltInAttributes == {"gl_VertexID", "gl_InstanceID"}

\* C15 as stated: of a linked program getActiveAttribute never returns a
\* built-in attribute and getActiveAttributeCount counts the attributes that
\* are not built in.
C15_BuiltInsNotEnumerated ==
    /\ (ret.op = "getActiveAttribute" /\ mLinked) => ret.result \notin BuiltInAttributes
    /\ (ret.op = "getActiveAttributeCount" /\ mLinked) =>
           ret.result = ToString(Cardinality({i \in 1..Len(mExecutable.mProgramInputs) :
                                                 ~mExecutable.mProgramInputs[i].builtin}))

\* C15 amended: after a successful link the active built-in attributes of the
\* vertex shader are entries of the active attribute table like the others,
\* getActiveAttributeCount counts every entry and getActiveAttribute returns
\* the entry asked for; what leaves the built-in attributes out is the active
\* attribute location mask.
C15_BuiltInsEnumeratedNotMasked ==
    /\ LinkSucceeded =>
          /\ {mExecutable.mProgramInputs[i].name : i \in 1..Len(mExecutable.mProgramInputs)}
               = {LinkedAttributes[i].name :
                     i \in {k \in 1..Len(LinkedAttributes) : LinkedAttributes[k].active}}
          /\ mExecutable.mActiveAttribLocationsMask
               = UNION {OccupiedRegisters(mExecutable.mProgramInputs[i]) :
                          i \in {k \in 1..Len(mExecutable.mProgramInputs) :
                                   mExecutable.mProgramInputs[k].name \notin BuiltInAttributes}}
    /\ (ret.op = "getActiveAttributeCount" /\ mLinked) =>
           ret.result = ToString(Len(mExecutable.mProgramInputs))
    /\ (ret.op = "getActiveAttribute" /\ mLinked) =>
           \E i \in 1..Len(mExecutable.mProgramInputs) :
               ret.result = mExecutable.mProgramInputs[i].name

\* getActiveAttribute returned gl_VertexID of a linked program.
C15_Witness ==
    /\ ret.op = "getActiveAttribute" /\ mLinked /\ ret.result = "gl_VertexID"
    /\ mExecutable.mActiveAttribLocationsMask # {}

-----------------------------------------------------------------------------
(* Uniforms.                                                               *)

\* A link() was resolved with success: the program is linked.
LinkResolved == ret.op = "resolveLink" /\ mLinked /\ ~mLinkingState.present

\* The uniforms of the linked program in a range, with their indices.
UniformsIn(range) == {i \in 1..Len(mExecutable.mUniforms) : range.low < i /\ i <= range.high}

\* The elements of the sub-arrays that come before a flattened sub-array in
\* its array of arrays; 0 for a uniform that is not such a sub-array.
ArrayOffset(uniform) ==
    IF uniform.parentArrayIndex = -1 THEN 0 ELSE uniform.parentArrayIndex * uniform.count

\* The units a sampler or image uniform is to be bound to.
ExpectedUnits(uniform) ==
    [e \in 1..uniform.count |->
        IF uniform.binding = -1 THEN 0
        ELSE uniform.binding + ArrayOffset(uniform) + (e - 1)]

\* C16: after a link every sampler and every image uniform has one bound
\* unit for each of its elements: unit 0 without a binding, and otherwise
\* binding + arrayOffset + i for element i, arrayOffset being the number of
\* elements of the sub-arrays before it in its array of arrays.
C16_UnitsFollowBindings ==
    LinkResolved =>
        /\ Len(mExecutable.mSamplerBindings)
             = Cardinality(UniformsIn(mExecutable.mSamplerUniformRange))
        /\ Len(getImageBindings(mExecutable))
             = Cardinality(UniformsIn(mExecutable.mImageUniformRange))
        /\ \A i \in UniformsIn(mExecutable.mSamplerUniformRange) :
              mExecutable.mSamplerBindings[i - mExecutable.mSamplerUniformRange.low]
                  .boundTextureUnits = ExpectedUnits(mExecutable.mUniforms[i])
        /\ \A i \in UniformsIn(mExecutable.mImageUniformRange) :
              getImageBindings(mExecutable)[i - mExecutable.mImageUniformRange.low]
                  .boundImageUnits = ExpectedUnits(mExecutable.mUniforms[i])

\* The atomic counter uniforms of the program (indices from 1) and the index
\* of the first of them with a binding.
AtomicCounterUniforms ==
    {i \in 1..Len(mExecutable.mUniforms) : mExecutable.mUniforms[i].kind = "atomic"}
FirstWithBinding(binding) ==
    CHOOSE i \in AtomicCounterUniforms :
        /\ mExecutable.mUniforms[i].binding = binding
        /\ \A j \in AtomicCounterUniforms :
              mExecutable.mUniforms[j].binding = binding => i <= j

\* C17: after a link there is exactly one atomic counter buffer for each
\* binding of an atomic counter uniform, the buffers are in the order in
\* which their bindings occur first, the members of a buffer are exactly the
\* uniforms with its binding, and bufferIndex of every atomic counter
\* uniform is the index of the buffer with its binding.
C17_AtomicCounterBuffersByBinding ==
    LinkSucceeded =>
        LET uniforms == mExecutable.mUniforms
            buffers == mExecutable.mAtomicCounterBuffers
        IN  /\ AtomicCounterUniforms = UniformsIn(mState.mAtomicCounterUniformRange)
            /\ {buffers[b].binding : b \in 1..Len(buffers)}
                 = {uniforms[i].binding : i \in AtomicCounterUniforms}
            /\ \A b, c \in 1..Len(buffers) :
                  /\ b # c => buffers[b].binding # buffers[c].binding
                  /\ b < c => FirstWithBinding(buffers[b].binding)
                                < FirstWithBinding(buffers[c].binding)
            /\ \A b \in 1..Len(buffers) :
                  LET members == {i \in AtomicCounterUniforms :
                                     uniforms[i].binding = buffers[b].binding}
                  IN  /\ Len(buffers[b].memberIndexes) = Cardinality(members)
                      /\ {buffers[b].memberIndexes[m] + 1 :
                             m \in 1..Len(buffers[b].memberIndexes)} = members
            /\ \A i \in AtomicCounterUniforms :
                  /\ uniforms[i].bufferIndex \in 0..(Len(buffers) - 1)
                  /\ buffers[uniforms[i].bufferIndex + 1].binding = uniforms[i].binding

\* A program linked with atomic counters of bindings 2, 2 and 5: two buffers,
\* of two members and of one.
C17_Witness ==
    /\ LinkSucceeded
    /\ Len(mExecutable.mAtomicCounterBuffers) = 2
    /\ mExecutable.mAtomicCounterBuffers[1].binding = 2
    /\ Len(mExecutable.mAtomicCounterBuffers[1].memberIndexes) = 2
    /\ mExecutable.mAtomicCounterBuffers[2].binding = 5
    /\ Len(mExecutable.mAtomicCounterBuffers[2].memberIndexes) = 1

-----------------------------------------------------------------------------
(* Shader stages.                                                          *)

\* The attached shaders cannot make a program: a compute shader together
\* with a graphics shader, no shader at all, a vertex or a fragment shader
\* missing from a program that is not separable, or a shader that is not
\* compiled.
MalformedStages ==
    LET hasV == mAttachedShaders["Vertex"].id # "none"
        hasF == mAttachedShaders["Fragment"].id # "none"
        hasC == mAttachedShaders["Compute"].id # "none"
    IN  \/ hasC /\ (hasV \/ hasF)
        \/ ~hasC /\ ~hasV /\ ~hasF
        \/ ~hasC /\ ~mSeparable /\ (~hasV \/ ~hasF)
        \/ \E t \in ShaderTypes :
              mAttachedShaders[t].id # "none" /\ ~mAttachedShaders[t].compiled

\* C18: a link of a malformed combination of stages fails and leaves every
\* attribute, uniform, block and output table of the program as it was.
C18_MalformedStagesLeaveTables ==
    [][(LinkStep /\ MalformedStages) =>
          (~mLinkingState'.present /\ ResourceTables' = ResourceTables)]_vars

\* The link of a linked graphics program to which a compute shader was
\* attached failed, and the program has its tables still.
C18_Witness ==
    /\ ret.op = "link" /\ ~mLinkingState.present /\ MalformedStages
    /\ mAttachedShaders["Compute"].id # "none" /\ mAttachedShaders["Vertex"].id # "none"
    /\ mExecutable.mProgramInputs # <<>> /\ mExecutable.mUniforms # <<>>
    /\ mExecutable.mOutputVariables # <<>>

-----------------------------------------------------------------------------
(* Interface blocks                                                        *)

\* The interface blocks, uniform and shader storage, a graphics stage declares.
InterfaceBlocksOf(type) ==
    mAttachedShaders[type].uniformBlocks \o mAttachedShaders[type].shaderStorageBlocks
BlocksIn(blocks) == {blocks[i] : i \in 1..Len(blocks)}
FieldNames(block) == {block.fields[i].name : i \in 1..Len(block.fields)}

\* Two blocks without instance names, of different names, one in the vertex
\* stage and one in the fragment stage, have a field of the same name.
AmbiguousFields ==
    {<<b, c>> \in BlocksIn(InterfaceBlocksOf("Vertex")) \X BlocksIn(InterfaceBlocksOf("Fragment")) :
        /\ b.instanceName = "" /\ c.instanceName = "" /\ b.name # c.name
        /\ FieldNames(b) \cap FieldNames(c) # {}}

\* C19: a link of a program in which two blocks without instance names, of
\* different names and declared in different attached stages, both have a
\* field of one name, fails.
C19_AmbiguousFieldsFailLink ==
    (ret.op = "link" /\ AmbiguousFields # {}) => LinkFailed

\* A link that failed for the field f of the vertex shader's block B and of
\* the fragment shader's block C, which have different layouts and bindings.
C19_Witness ==
    /\ LinkFailed
    /\ \E pair \in AmbiguousFields :
          /\ pair[1].name = "B" /\ pair[2].name = "C"
          /\ pair[1].layout # pair[2].layout /\ pair[1].binding # pair[2].binding
    /\ mExecutable.infoLog # <<>>
    /\ LastMessage = "Ambiguous field 'f' in blocks 'C' and 'B' which don't have instance names."

\* The uniform blocks of one name that the vertex stage and the fragment
\* stage both declare.
SameNameBlocks ==
    {<<b, c>> \in BlocksIn(mAttachedShaders["Vertex"].uniformBlocks)
                    \X BlocksIn(mAttachedShaders["Fragment"].uniformBlocks) : b.name = c.name}

\* C20 as stated: a link succeeds only if the blocks of one name that two
\* stages declare have identical field lists, layout and binding.
C20_SameNameBlocksIdentical ==
    LinkSucceeded =>
        \A pair \in SameNameBlocks :
            /\ pair[1].fields = pair[2].fields
            /\ pair[1].layout = pair[2].layout
            /\ pair[1].binding = pair[2].binding

\* The fields of two blocks agree: as many fields, with the same names, types
\* and matrix packing in the same order, and the same precisions where the
\* context is WebGL compatible.
FieldsAgree(b, c) ==
    /\ Len(b.fields) = Len(c.fields)
    /\ \A i \in 1..Len(b.fields) :
          /\ b.fields[i].name = c.fields[i].name
          /\ b.fields[i].type = c.fields[i].type
          /\ b.fields[i].isRowMajorLayout = c.fields[i].isRowMajorLayout
          /\ context.webglCompatibility => b.fields[i].precision = c.fields[i].precision

\* C20: a link succeeds only if the blocks of one name that two stages
\* declare agree in their fields (their precisions compared only in a WebGL
\* compatible context), array size, layout, binding and in having an
\* instance name.
C20_SameNameBlocksMatch ==
    LinkSucceeded =>
        \A pair \in SameNameBlocks :
            /\ FieldsAgree(pair[1], pair[2])
            /\ pair[1].arraySize = pair[2].arraySize
            /\ pair[1].layout = pair[2].layout
            /\ pair[1].binding = pair[2].binding
            /\ (pair[1].instanceName = "") = (pair[2].instanceName = "")

\* A link that passed with the block B of the two stages differing only in
\* the precision of the field f.
C20_Witness ==
    /\ LinkSucceeded
    /\ ~context.webglCompatibility
    /\ \E pair \in SameNameBlocks :
          /\ pair[1].name = "B"
          /\ pair[1].fields[1].precision # pair[2].fields[1].precision
          /\ FieldsAgree(pair[1], pair[2])

-----------------------------------------------------------------------------
(* Translated shaders                                                      *)

TranslatedShader(shaderType) ==
    compiler.present /\ compiler.translated /\ compiler.shaderType = shaderType
\* The statements of main() that write the variable.
Writes(lhs) == {s \in 1..Len(compiler.root.main) : compiler.root.main[s].lhs = lhs}
PreRotated == TranslatedShader("Vertex") /\ "SH_ADD_PRE_ROTATION" \in compiler.compileOptions

\* C21 as stated: in a translated vertex shader with pre-rotation, the depth
\* correction of gl_Position.z runs after the pre-rotation of gl_Position.xy.
C21_DepthCorrectionAfterPreRotation ==
    PreRotated =>
        \E z \in Writes("gl_Position.z"), xy \in Writes("gl_Position.xy") : xy < z

\* C21: in a translated vertex shader with pre-rotation, the depth correction
\* of gl_Position.z and then the pre-rotation of gl_Position.xy are the last
\* two statements of main(): the depth correction runs before the
\* pre-rotation, and neither reads what the other writes.
C21_PreRotationAfterDepthCorrection ==
    PreRotated =>
        LET main == compiler.root.main
        IN  /\ Writes("gl_Position.z") = {Len(main) - 1}
            /\ Writes("gl_Position.xy") = {Len(main)}
            /\ main[Len(main) - 1].expr = <<"EOpMul", "EOpAdd", "z", "w", "0.5">>
            /\ main[Len(main)].expr = <<"EOpMatrixTimesVector", "preRotation", "xy">>

\* A translated vertex shader with pre-rotation and line raster emulation:
\* the two assignments come after the emulation block.
C21_Witness ==
    /\ PreRotated
    /\ "SH_ADD_BRESENHAM_LINE_RASTER_EMULATION" \in compiler.compileOptions
    /\ Len(compiler.root.main) = 5
    /\ Writes("gl_Position.z") = {4} /\ Writes("gl_Position.xy") = {5}

\* The statement, or a statement of its blocks, refers to the variable.
Reads(statement, variable) ==
    \/ variable \in statement.symbols
    \/ \E b \in 1..Len(statement.body) :
          \/ variable \in statement.body[b].symbols
          \/ \E c \in 1..Len(statement.body[b].body) :
                variable \in statement.body[b].body[c].symbols

\* The built-in is replaced by the corrected variable, which main()
\* initialises from it before any statement that uses it.
Corrected(builtin, flippedVariableName) ==
    LET main == compiler.root.main
    IN  \E k \in 1..Len(main) :
           /\ main[k].op = "EOpInitialize" /\ main[k].lhs = flippedVariableName
           /\ main[k].symbols = {builtin}
           /\ main[k + 1].lhs = flippedVariableName \o ".xy"
           /\ \A j \in 1..Len(main) :
                 /\ Reads(main[j], builtin) => j \in {k, k + 1}
                 /\ Reads(main[j], flippedVariableName) => j > k + 1

BuiltInInputs ==
    {compiler.mInputVaryings[i].name : i \in 1..Len(compiler.mInputVaryings)}

\* C22: in a translated fragment shader whose built-in inputs include both
\* gl_FragCoord and gl_PointCoord, both are replaced by corrected variables
\* that are initialised at the top of main() before any use.
C22_BothBuiltInsCorrected ==
    (TranslatedShader("Fragment") /\ {"gl_FragCoord", "gl_PointCoord"} \subseteq BuiltInInputs)
        => /\ Corrected("gl_FragCoord", "flippedFragCoord")
           /\ Corrected("gl_PointCoord", "flippedPointCoord")

\* The bound 0.5 + kEpsilon is exceeded on the axis (1 = x, 2 = y) by the
\* fragment drawn, in units of 1/20000 of a pixel.
Exceeded(axis) ==
    LET fr == compiler.fragment
        other == 3 - axis
        Abs(x) == IF x < 0 THEN -x ELSE x
    IN  Abs(fr.d[other] * (fr.p[axis] - fr.f[axis]) + fr.d[axis] * (fr.f[other] - fr.p[other]))
          > 10002 * Abs(fr.d[other])
EmulatedFragment ==
    /\ TranslatedShader("Fragment") /\ compiler.fragment.drawn
    /\ compiler.fragment.lineRasterEmulation

\* C23 as stated: with line raster emulation active, a fragment is discarded
\* exactly when the bound is exceeded on either axis.
C23_DiscardedUnlessBothAxesPass ==
    EmulatedFragment => (compiler.fragment.discarded <=> (Exceeded(1) \/ Exceeded(2)))

\* C23: with line raster emulation active, a fragment is discarded exactly
\* when |p - f + (d/d_)(f_ - p_)| exceeds 0.5 + 1e-4 on both axes; a
\* fragment within the bound on one axis is kept.
C23_DiscardedWhenBothAxesFail ==
    EmulatedFragment => (compiler.fragment.discarded <=> (Exceeded(1) /\ Exceeded(2)))

\* A fragment that is kept with the bound exceeded on the x axis only, drawn
\* by a shader that reads gl_FragCoord.
C23_Witness ==
    /\ EmulatedFragment
    /\ Exceeded(1) /\ ~Exceeded(2) /\ ~compiler.fragment.discarded
    /\ "gl_FragCoord" \in BuiltInInputs

-----------------------------------------------------------------------------
(* The set-up of the program.                                              *)

\* The output array o, as ProgramAliasedBindings::getBinding is asked about
\* it, and the two names it can be bound under: "o" and "o[0]".
OutputArray == [name |-> "o", isArray |-> TRUE]
OutputArrayAliases == {BindingName("o", kUnused), BindingName("o", 0)}
BoundLocation == aliasedGetBinding(mFragmentOutputLocations, OutputArray)
BindsAlias ==
    \E index \in FragDataLocations, name \in OutputArrayAliases :
        BindFragmentOutputLocation(index, name)

\* C24: getBinding of an output array gives -1 while neither "name" nor
\* "name[0]" is bound; a bindLocation of either of the two makes it give the
\* location of that call, and it gives that location until the next such
\* call: a bindLocation of another name and the other calls do not change it.
C24_MostRecentAliasWins ==
    [][/\ (OutputArrayAliases \cap DOMAIN mFragmentOutputLocations = {})
            => BoundLocation = -1
       /\ \A index \in FragDataLocations, name \in OutputArrayAliases :
             BindFragmentOutputLocation(index, name) => BoundLocation' = index
       /\ ~BindsAlias => BoundLocation' = BoundLocation]_vars

\* "o" was bound, then "o[0]" to another location, which getBinding gives.
C24_Witness ==
    /\ ret.op = "bindFragmentOutputLocation"
    /\ OutputArrayAliases \subseteq DOMAIN mFragmentOutputLocations
    /\ mFragmentOutputLocations[BindingName("o", kUnused)].aliased
    /\ mFragmentOutputLocations[BindingName("o", kUnused)].location
         # mFragmentOutputLocations[BindingName("o", 0)].location
    /\ BoundLocation = mFragmentOutputLocations[BindingName("o", 0)].location
    /\ BindingName("o", 1) \in DOMAIN mFragmentOutputLocations

-----------------------------------------------------------------------------
(* The ceiling of the fragment output locations.                           *)

\* The outputs of index one: index = 1 in the shader or bound through the API.
IndexOneOutputs ==
    {i \in 1..Len(FragmentOutputs) :
        /\ ~FragmentOutputs[i].builtin
        /\ isOutputSecondaryForLink(FragmentOutputs[i], mFragmentOutputIndexes)}

\* Element x of an output is placed by the binding of an element of an array
\* ("name[k]", k > 0) and not with its variable.
PlacedByElementBinding(x) ==
    /\ x[2] >= 1
    /\ \E n \in DOMAIN mFragmentOutputLocations :
          n.arrayIndex = x[2] /\ BeginsWith(FragmentOutputs[x[1]].name, n.name)

\* The output elements placed with their variable, at its fixed location or
\* at the location the linker chose, that lie at or above MAX_DUAL_SOURCE_DRAW_BUFFERS.
AboveDualSourceCeiling ==
    {x \in OutputElements :
        /\ ~PlacedByElementBinding(x)
        /\ \E slot \in SlotsOf(x) : slot[2] >= Caps.maxDualSourceDrawBuffers}

C25_FixedIndexOneLowersCeiling ==
    (/\ LinkSucceeded
     /\ \E i \in IndexOneOutputs :
            getOutputLocationForLink(FragmentOutputs[i], mFragmentOutputLocations) # -1)
        => AboveDualSourceCeiling = {}

-----------------------------------------------------------------------------
(* The info log.                                                           *)

\* C26: the text appendSanitized appends to the info log contains no
\* occurrence of g_fakepath.
C26_NoFakePathInLog ==
    \A i \in 1..Len(mExecutable.infoLog) : find(mExecutable.infoLog[i], g_fakepath) = 0

-----------------------------------------------------------------------------
(* The binary of a program serialized without a context.                   *)

\* C27: serialize(nullptr, ...) of a linked program, one with linked
\* transform feedback varyings included, makes no call through the context
\* and completes.
C27_NullContextNotDereferenced ==
    ret.op = "serialize(nullptr)" => (ret.steps = {} /\ ret.result = "Continue")

-----------------------------------------------------------------------------
(* The active samplers.                                                    *)

\* The number of elements of the sampler bindings bound to texture unit u.
ElementsBoundTo(u) ==
    Cardinality({be \in UNION {{<<b, e>> :
                                   e \in 1..Len(mExecutable.mSamplerBindings[b].boundTextureUnits)} :
                               b \in 1..Len(mExecutable.mSamplerBindings)} :
                    mExecutable.mSamplerBindings[be[1]].boundTextureUnits[be[2]] = u})

\* C28: in a program linked with success, whatever setUniform1iv wrote to
\* its sampler uniforms, the active-sampler reference count of every texture
\* unit is the number of sampler array elements bound to it, and the unit is
\* in the active-samplers mask exactly when that count is above zero.
C28_RefCountsMatchBoundUnits ==
    (mLinked /\ ~mLinkingState.present) =>
        \A u \in 0..MaxTextureUnit :
            /\ mExecutable.mActiveSamplerRefCounts[u] = ElementsBoundTo(u)
            /\ (u \in mExecutable.mActiveSamplersMask) <=> (ElementsBoundTo(u) > 0)

\* setUniform1iv moved the last element bound to unit 0 to a unit where
\* elements of s and of t are bound now.
C28_Witness ==
    /\ ret.op = "setUniform1iv"
    /\ mLinked /\ ~mLinkingState.present
    /\ ElementsBoundTo(0) = 0
    /\ \E u \in 1..MaxTextureUnit :
          /\ ElementsBoundTo(u) >= 3
          /\ mExecutable.mActiveSamplersMask = {u}

-----------------------------------------------------------------------------
(* The attached shaders.                                                   *)

\* The program holds exactly one reference on each attached shader.
AttachedShadersHoldOneReference ==
    \A t \in ShaderTypes :
        IsAttached(mAttachedShaders, t) => CopiesIn(mAttachedShaders[t].id, refCount) = 1

\* The handles getAttachedShaders reports, whatever maxCount is.
ReportedShaders(att) ==
    UNION {{getAttachedShaders(att, maxCount)[i] :
               i \in 1..Len(getAttachedShaders(att, maxCount))} :
           maxCount \in 0..Len(AllShaderTypes)}

\* C29: a shader that detachShader detached is no longer counted by
\* getAttachedShadersCount nor reported by getAttachedShaders, of a separable
\* program as of any other, and each attached shader holds exactly one
\* reference taken by the program.
C29_DetachedShaderNotReported ==
    [][/\ \A t \in ShaderTypes :
             DetachShader(t) =>
                 /\ getAttachedShadersCount(mAttachedShaders')
                      = getAttachedShadersCount(mAttachedShaders) - 1
                 /\ mAttachedShaders[t].id \notin ReportedShaders(mAttachedShaders')
       /\ AttachedShadersHoldOneReference']_vars

-----------------------------------------------------------------------------
(* The bindings of the elements of fragment output arrays.                 *)

\* Element x of an output has no binding of its own: it is element 0, or no
\* location is bound to "name[k]" for its name and its index k.
NotBoundByName(x) ==
    \/ x[2] = 0
    \/ BindingName(FragmentOutputs[x[1]].name, x[2]) \notin DOMAIN mFragmentOutputLocations

\* link() gave up on two outputs at one location.
PlacementConflict ==
    /\ LinkFailed
    /\ mExecutable.infoLog # <<>>
    /\ LastMessage = "Location of variable conflicts with another variable."

\* C30: a binding of "name[k]", k > 0, reserves a location for element k of
\* the output array of exactly that name only.  An element of an array no
\* binding names lies k locations after element 0 of its array, and the
\* link fails with a conflict only if two outputs are asked to be at one
\* location.
C30_ElementBindingByExactName ==
    /\ LinkSucceeded =>
          \A x \in OutputElements :
              NotBoundByName(x) =>
                  SlotsOf(x) = {<<slot[1], slot[2] + x[2]>> : slot \in SlotsOf(<<x[1], 0>>)}
    /\ PlacementConflict => OutputsCollide

====
